---- MODULE Spec2Model ----
(***************************************************************************)
(* Model of the k8s-mcp-server command gateway: the command-syntax         *)
(* utilities (tools.py), the safety policy engine (security.py) and the    *)
(* command executor (cli_executor.py).  Command strings are TLA+ strings,  *)
(* handled character by character with Len, SubSeq and \o, so that the     *)
(* tokenizer, the quote scanner and the prefix and substring tests are     *)
(* computed the way the Python code computes them.                         *)
(***************************************************************************)
EXTENDS Integers, Sequences, FiniteSets, TLC

(***************************************************************************)
(* Python string primitives                                                *)
(***************************************************************************)

\* command[i], 1-based
Ch(s, i) == SubSeq(s, i, i)

\* str.startswith
StartsWith(s, p) == Len(s) >= Len(p) /\ SubSeq(s, 1, Len(p)) = p

\* the `in` operator on two strings
Contains(s, p) == \E i \in 0..(Len(s) - Len(p)) : SubSeq(s, i + 1, i + Len(p)) = p

\* the characters str.strip() and shlex treat as whitespace
Whitespace == {" ", "\t", "\r", "\n"}

RECURSIVE LStrip(_)
LStrip(s) == IF s # "" /\ Ch(s, 1) \in Whitespace THEN LStrip(SubSeq(s, 2, Len(s))) ELSE s

RECURSIVE RStrip(_)
RStrip(s) == IF s # "" /\ Ch(s, Len(s)) \in Whitespace THEN RStrip(SubSeq(s, 1, Len(s) - 1)) ELSE s

\* str.strip()
Strip(s) == RStrip(LStrip(s))

\* " ".join(parts)
RECURSIVE JoinWith(_, _)
JoinWith(sep, parts) ==
    IF parts = <<>> THEN ""
    ELSE IF Len(parts) = 1 THEN parts[1]
    ELSE parts[1] \o sep \o JoinWith(sep, Tail(parts))

\* always TRUE; a loop tests it on the state it has reached so that the state is
\* computed there, not carried along as an unevaluated expression
Evaluated(v) == v = v

\* x in list
InList(x, list) == \E k \in 1..Len(list) : list[k] = x

(***************************************************************************)
(* shlex.split (POSIX mode, whitespace_split, no comments).  The result is *)
(* [err, toks]: err is the message of the ValueError shlex raises, or "".  *)
(***************************************************************************)
ShlexQuotes == {"'", "\""}

\* the tokenizer's state: state and escapedstate as in shlex, the token being
\* built, whether it had a quoted part, and the tokens produced so far
ShlexInit == [state |-> " ", escapedstate |-> "a", token |-> "", quoted |-> FALSE, toks |-> <<>>]

\* one character c read by shlex.read_token
shlex_step(st, c) ==
    IF st.state = " " THEN
        IF c \in Whitespace THEN [st EXCEPT !.token = "", !.quoted = FALSE]
        ELSE IF c = "\\" THEN [st EXCEPT !.state = "\\", !.escapedstate = "a"]
        ELSE IF c \in ShlexQuotes THEN [st EXCEPT !.state = c, !.quoted = TRUE]
        ELSE [st EXCEPT !.state = "a", !.token = c]
    ELSE IF st.state \in ShlexQuotes THEN
        IF c = st.state THEN [st EXCEPT !.state = "a", !.quoted = TRUE]
        ELSE IF c = "\\" /\ st.state = "\""
        THEN [st EXCEPT !.state = "\\", !.escapedstate = st.state, !.quoted = TRUE]
        ELSE [st EXCEPT !.token = st.token \o c, !.quoted = TRUE]
    ELSE IF st.state = "\\" THEN
        IF st.escapedstate \in ShlexQuotes /\ c # "\\" /\ c # st.escapedstate
        THEN [st EXCEPT !.state = st.escapedstate, !.token = st.token \o "\\" \o c]
        ELSE [st EXCEPT !.state = st.escapedstate, !.token = st.token \o c]
    ELSE \* state "a": inside a word
        IF c \in Whitespace
        THEN [st EXCEPT !.state = " ", !.token = "", !.quoted = FALSE,
                        !.toks = IF st.token # "" \/ st.quoted
                                 THEN Append(st.toks, st.token) ELSE st.toks]
        ELSE IF c \in ShlexQuotes THEN [st EXCEPT !.state = c, !.quoted = TRUE]
        ELSE IF c = "\\" THEN [st EXCEPT !.state = "\\", !.escapedstate = "a"]
        ELSE [st EXCEPT !.token = st.token \o c]

\* the loop over the characters lo..hi of s, from state st; a left fold,
\* written by halves so that its nesting depth stays logarithmic
RECURSIVE shlex_scan(_, _, _, _)
shlex_scan(s, lo, hi, st) ==
    IF lo > hi THEN st
    ELSE IF lo = hi THEN shlex_step(st, Ch(s, lo))
    ELSE LET mid  == (lo + hi) \div 2
             left == shlex_scan(s, lo, mid, st) IN
         IF Evaluated(left) THEN shlex_scan(s, mid + 1, hi, left) ELSE left

\* end of input: an open quote or a dangling backslash raises ValueError
shlex_split(s) ==
    LET st == shlex_scan(s, 1, Len(s), ShlexInit) IN
    IF st.state \in ShlexQuotes THEN [err |-> "No closing quotation", toks |-> <<>>]
    ELSE IF st.state = "\\" THEN [err |-> "No escaped character", toks |-> <<>>]
    ELSE [err |-> "", toks |-> IF st.token # "" \/ st.quoted
                               THEN Append(st.toks, st.token) ELSE st.toks]

(***************************************************************************)
(* tools.py: allow-lists, pipe detection and pipe splitting                *)
(***************************************************************************)
ALLOWED_UNIX_COMMANDS ==
    {"cat", "ls", "cd", "pwd", "cp", "mv", "rm", "mkdir", "touch", "chmod", "chown",
     "grep", "sed", "awk", "cut", "sort", "uniq", "wc", "head", "tail", "tr", "find",
     "ps", "top", "df", "du", "uname", "whoami", "date", "which", "echo",
     "ping", "ifconfig", "netstat", "curl", "wget", "dig", "nslookup", "ssh", "scp",
     "man", "less", "tar", "gzip", "gunzip", "zip", "unzip", "xargs", "jq", "yq", "tee"}

ALLOWED_K8S_TOOLS == {"kubectl", "istioctl", "helm", "argocd"}

\* [raised, value]: raised is the message of the ValueError shlex.split raised, or ""
is_valid_k8s_tool(command) ==
    LET cmd_parts == shlex_split(command) IN
    IF cmd_parts.err # "" THEN [raised |-> cmd_parts.err, value |-> FALSE]
    ELSE IF cmd_parts.toks = <<>> THEN [raised |-> "", value |-> FALSE]
    ELSE [raised |-> "", value |-> cmd_parts.toks[1] \in ALLOWED_K8S_TOOLS]

validate_unix_command(command) ==
    LET cmd_parts == shlex_split(command) IN
    IF cmd_parts.err # "" THEN [raised |-> cmd_parts.err, value |-> FALSE]
    ELSE IF cmd_parts.toks = <<>> THEN [raised |-> "", value |-> FALSE]
    ELSE [raised |-> "", value |-> cmd_parts.toks[1] \in ALLOWED_UNIX_COMMANDS]

\* the test both scanners apply to a quote character at position i
NotEscaped(command, i) == i = 1 \/ Ch(command, i - 1) # "\\"

\* the quote flags both scanners keep, after reading the character at position i
QuoteFlags(q, command, i) ==
    LET char == Ch(command, i) IN
    IF char = "'" /\ NotEscaped(command, i)
    THEN [q EXCEPT !.in_single_quote = ~q.in_single_quote]
    ELSE IF char = "\"" /\ NotEscaped(command, i)
    THEN [q EXCEPT !.in_double_quote = ~q.in_double_quote]
    ELSE q

\* TRUE when the character at position i is a quote that toggles a flag
TogglesQuote(command, i) ==
    Ch(command, i) \in {"'", "\""} /\ NotEscaped(command, i)

\* TRUE when the character at position i is a `|` seen with both flags off
IsPipeAt(q, command, i) ==
    ~TogglesQuote(command, i) /\ Ch(command, i) = "|"
        /\ ~q.in_single_quote /\ ~q.in_double_quote

NoQuotes == [in_single_quote |-> FALSE, in_double_quote |-> FALSE]

\* one iteration of the loop of is_pipe_command; found records the `return True`
is_pipe_step(st, command, i) ==
    IF st.found THEN st
    ELSE IF IsPipeAt(st.q, command, i) THEN [st EXCEPT !.found = TRUE]
    ELSE [st EXCEPT !.q = QuoteFlags(st.q, command, i)]

\* the loop over the characters lo..hi, a left fold written by halves
RECURSIVE is_pipe_scan(_, _, _, _)
is_pipe_scan(command, lo, hi, st) ==
    IF lo > hi THEN st
    ELSE IF lo = hi THEN is_pipe_step(st, command, lo)
    ELSE LET mid  == (lo + hi) \div 2
             left == is_pipe_scan(command, lo, mid, st) IN
         IF Evaluated(left) THEN is_pipe_scan(command, mid + 1, hi, left) ELSE left

is_pipe_command(command) ==
    is_pipe_scan(command, 1, Len(command), [q |-> NoQuotes, found |-> FALSE]).found

\* one iteration of the loop of split_pipe_command
split_pipe_step(st, pipe_command, i) ==
    IF IsPipeAt(st.q, pipe_command, i)
    THEN [st EXCEPT !.commands = Append(st.commands, Strip(st.current_command)),
                    !.current_command = ""]
    ELSE [st EXCEPT !.q = QuoteFlags(st.q, pipe_command, i),
                    !.current_command = st.current_command \o Ch(pipe_command, i)]

\* the loop over the characters lo..hi, a left fold written by halves
RECURSIVE split_pipe_scan(_, _, _, _)
split_pipe_scan(pipe_command, lo, hi, st) ==
    IF lo > hi THEN st
    ELSE IF lo = hi THEN split_pipe_step(st, pipe_command, lo)
    ELSE LET mid  == (lo + hi) \div 2
             left == split_pipe_scan(pipe_command, lo, mid, st) IN
         IF Evaluated(left) THEN split_pipe_scan(pipe_command, mid + 1, hi, left) ELSE left

split_pipe_command(pipe_command) ==
    LET st == split_pipe_scan(pipe_command, 1, Len(pipe_command),
                              [q |-> NoQuotes, current_command |-> "", commands |-> <<>>]) IN
    IF Strip(st.current_command) # "" THEN Append(st.commands, Strip(st.current_command))
    ELSE st.commands

(***************************************************************************)
(* security.py: the safety policy engine.  A validator returns the         *)
(* exception it raises as [exc, msg]; exc = "" means it returned normally. *)
(***************************************************************************)
Tools == <<"kubectl", "istioctl", "helm", "argocd">>

Accepted == [exc |-> "", msg |-> ""]

Raise(exc, msg) == [exc |-> exc, msg |-> msg]

\* the table without its "kubectl exec" entry
DANGEROUS_COMMANDS_without_exec ==
    [kubectl  |-> <<"kubectl delete", "kubectl drain", "kubectl replace --force",
                    "kubectl port-forward", "kubectl cp">>,
     istioctl |-> <<"istioctl experimental", "istioctl proxy-config", "istioctl dashboard">>,
     helm     |-> <<"helm delete", "helm uninstall", "helm rollback", "helm upgrade">>,
     argocd   |-> <<"argocd app delete", "argocd cluster rm", "argocd repo rm", "argocd app set">>]

DANGEROUS_COMMANDS ==
    [kubectl  |-> <<"kubectl delete", "kubectl drain", "kubectl replace --force",
                    "kubectl exec", "kubectl port-forward", "kubectl cp">>,
     istioctl |-> <<"istioctl experimental", "istioctl proxy-config", "istioctl dashboard">>,
     helm     |-> <<"helm delete", "helm uninstall", "helm rollback", "helm upgrade">>,
     argocd   |-> <<"argocd app delete", "argocd cluster rm", "argocd repo rm", "argocd app set">>]

SAFE_PATTERNS ==
    [kubectl  |-> <<"kubectl delete pod", "kubectl delete deployment", "kubectl delete service",
                    "kubectl delete configmap", "kubectl delete secret",
                    "kubectl exec --help", "kubectl exec -it",
                    "kubectl port-forward --help", "kubectl cp --help">>,
     istioctl |-> <<"istioctl experimental -h", "istioctl experimental --help",
                    "istioctl proxy-config --help", "istioctl dashboard --help">>,
     helm     |-> <<"helm delete --help", "helm uninstall --help", "helm rollback --help",
                    "helm upgrade --help">>,
     argocd   |-> <<"argocd app delete --help", "argocd cluster rm --help",
                    "argocd repo rm --help", "argocd app set --help">>]

\* any(command.startswith(p) for p in patterns)
StartsWithAny(command, patterns) ==
    \E k \in 1..Len(patterns) : StartsWith(command, patterns[k])

has_interactive(command) ==
    Contains(command, "-i") \/ Contains(command, "--stdin")
        \/ Contains(command, "-it") \/ Contains(command, "-ti")

dangerous_shell_patterns == <<" -- sh", " -- bash", " -- /bin/sh", " -- /bin/bash">>

has_dangerous_shell(command) ==
    \E k \in 1..Len(dangerous_shell_patterns) :
        Contains(command \o " ", dangerous_shell_patterns[k])

is_safe_exec_command(command) ==
    IF ~StartsWith(command, "kubectl exec") THEN TRUE
    ELSE (has_interactive(command) /\ ~has_dangerous_shell(command))
            \/ ~has_interactive(command)

\* the supported tools as the messages list them: security.py writes the list
\* out, cli_executor.py joins the keys of SUPPORTED_CLI_TOOLS, in the same order
SupportedToolsText == "kubectl, istioctl, helm, argocd"

MustStartWithTool == "Command must start with a supported CLI tool: " \o SupportedToolsText

MustIncludeAction(cli_tool) == "Command must include a " \o cli_tool \o " action"

InteractiveRestricted ==
    "Interactive shells via kubectl exec are restricted. "
        \o "Use explicit commands or proper flags (-it, --command, etc)."

UseSpecificForm == "Please use a more specific form with resource type and name."

EmptyAtPosition(i) == "Empty command at position " \o ToString(i) \o " in pipe"

NotAllowedInPipe(first_token, i) ==
    "Command '" \o first_token \o "' at position " \o ToString(i) \o " in pipe is not allowed. "
        \o "Only " \o SupportedToolsText \o " commands and basic Unix utilities are permitted."

\* the first dangerous prefix, in list order, that the command starts with
dangerous_cmd(command, patterns) ==
    patterns[CHOOSE k \in 1..Len(patterns) :
                 /\ StartsWith(command, patterns[k])
                 /\ \A j \in 1..(k - 1) : ~StartsWith(command, patterns[j])]

\* the dangerous/safe prefix loop shared in shape by both validators:
\* the first dangerous prefix the command starts with decides
DangerousCheck(command, cli_tool, dangerous, safe) ==
    cli_tool \in DOMAIN dangerous
        /\ StartsWithAny(command, dangerous[cli_tool])
        /\ ~(cli_tool \in DOMAIN safe /\ StartsWithAny(command, safe[cli_tool]))

validate_k8s_command(command) ==
    LET cmd_parts == shlex_split(command) IN
    IF cmd_parts.err # "" THEN Raise("ValueError", cmd_parts.err)
    ELSE IF cmd_parts.toks = <<>> THEN Raise("ValueError", "Empty command")
    ELSE LET cli_tool == cmd_parts.toks[1]
             valid    == is_valid_k8s_tool(cli_tool) IN
        IF valid.raised # "" THEN Raise("ValueError", valid.raised)
        ELSE IF ~valid.value
        THEN Raise("ValueError", MustStartWithTool)
        ELSE IF Len(cmd_parts.toks) < 2
        THEN Raise("ValueError", MustIncludeAction(cli_tool))
        ELSE IF cli_tool = "kubectl" /\ InList("exec", cmd_parts.toks)
                    /\ ~is_safe_exec_command(command)
        THEN Raise("ValueError", InteractiveRestricted)
        ELSE IF DangerousCheck(command, cli_tool, DANGEROUS_COMMANDS, SAFE_PATTERNS)
        THEN Raise("ValueError",
                   "This command (" \o dangerous_cmd(command, DANGEROUS_COMMANDS[cli_tool])
                       \o ") is restricted for safety reasons. " \o UseSpecificForm)
        ELSE Accepted

\* a loop over commands[1:] that checks nothing
validate_pipe_rest_unchecked(commands, i) == Accepted

\* the loop over commands[1:], commands[i] being at position i - 1 of
\* enumerate(commands[1:], 1): the first offending segment raises
RECURSIVE validate_pipe_rest(_, _)
validate_pipe_rest(commands, i) ==
    IF i > Len(commands) THEN Accepted
    ELSE LET cmd_parts == shlex_split(commands[i]) IN
        IF cmd_parts.err # "" THEN Raise("ValueError", cmd_parts.err)
        ELSE IF cmd_parts.toks = <<>> THEN Raise("ValueError", EmptyAtPosition(i - 1))
        ELSE IF ~validate_unix_command(commands[i]).value
        THEN Raise("ValueError", NotAllowedInPipe(cmd_parts.toks[1], i - 1))
        ELSE validate_pipe_rest(commands, i + 1)

validate_pipe_command(pipe_command) ==
    LET commands == split_pipe_command(pipe_command) IN
    IF commands = <<>> THEN Raise("ValueError", "Empty command")
    ELSE LET first == validate_k8s_command(commands[1]) IN
        IF first.exc # "" THEN first
        ELSE validate_pipe_rest(commands, 2)

validate_command(command) ==
    IF is_pipe_command(command) THEN validate_pipe_command(command)
    ELSE validate_k8s_command(command)

(***************************************************************************)
(* cli_executor.py: the executor keeps its own copy of the policy tables   *)
(* and validators (prefixed cli_ here), raising CommandValidationError.    *)
(***************************************************************************)
cli_DANGEROUS_COMMANDS ==
    [kubectl  |-> <<"kubectl delete", "kubectl drain", "kubectl replace --force", "kubectl exec">>,
     istioctl |-> <<"istioctl experimental", "istioctl proxy-config">>,
     helm     |-> <<"helm delete", "helm uninstall", "helm rollback">>,
     argocd   |-> <<"argocd app delete", "argocd cluster rm", "argocd repo rm">>]

cli_SAFE_PATTERNS ==
    [kubectl  |-> <<"kubectl delete pod", "kubectl delete deployment", "kubectl delete service",
                    "kubectl delete configmap", "kubectl delete secret",
                    "kubectl exec --help", "kubectl exec -it">>,
     istioctl |-> <<"istioctl experimental -h", "istioctl experimental --help",
                    "istioctl proxy-config --help">>,
     helm     |-> <<"helm delete --help", "helm uninstall --help", "helm rollback --help">>,
     argocd   |-> <<"argocd app delete --help", "argocd cluster rm --help",
                    "argocd repo rm --help">>]

cli_is_safe_exec_command(command) ==
    IF ~StartsWith(command, "kubectl exec") THEN TRUE
    ELSE (has_interactive(command) /\ ~has_dangerous_shell(command))
            \/ ~has_interactive(command)

cli_validate_k8s_command(command) ==
    LET cmd_parts == shlex_split(command) IN
    IF cmd_parts.err # "" THEN Raise("ValueError", cmd_parts.err)
    ELSE IF cmd_parts.toks = <<>> THEN Raise("CommandValidationError", "Empty command")
    ELSE LET cli_tool == cmd_parts.toks[1]
             valid    == is_valid_k8s_tool(cli_tool) IN
        IF valid.raised # "" THEN Raise("ValueError", valid.raised)
        ELSE IF ~valid.value
        THEN Raise("CommandValidationError", MustStartWithTool)
        ELSE IF Len(cmd_parts.toks) < 2
        THEN Raise("CommandValidationError", MustIncludeAction(cli_tool))
        ELSE IF cli_tool = "kubectl" /\ InList("exec", cmd_parts.toks)
                    /\ ~cli_is_safe_exec_command(command)
        THEN Raise("CommandValidationError", InteractiveRestricted)
        ELSE IF DangerousCheck(command, cli_tool, cli_DANGEROUS_COMMANDS, cli_SAFE_PATTERNS)
        THEN Raise("CommandValidationError",
                   "This command is restricted for safety reasons. " \o UseSpecificForm)
        ELSE Accepted

RECURSIVE cli_validate_pipe_rest(_, _)
cli_validate_pipe_rest(commands, i) ==
    IF i > Len(commands) THEN Accepted
    ELSE LET cmd_parts == shlex_split(commands[i]) IN
        IF cmd_parts.err # "" THEN Raise("ValueError", cmd_parts.err)
        ELSE IF cmd_parts.toks = <<>>
        THEN Raise("CommandValidationError", EmptyAtPosition(i - 1))
        ELSE IF ~validate_unix_command(commands[i]).value
        THEN Raise("CommandValidationError", NotAllowedInPipe(cmd_parts.toks[1], i - 1))
        ELSE cli_validate_pipe_rest(commands, i + 1)

cli_validate_pipe_command(pipe_command) ==
    LET commands == split_pipe_command(pipe_command) IN
    IF commands = <<>> THEN Raise("CommandValidationError", "Empty command")
    ELSE LET first == cli_validate_k8s_command(commands[1]) IN
        IF first.exc # "" THEN first
        ELSE cli_validate_pipe_rest(commands, 2)

\* list.insert(1, x)
Insert1(parts, x) == IF parts = <<>> THEN <<x>> ELSE <<parts[1], x>> \o Tail(parts)

resource_commands ==
    <<"get", "describe", "delete", "edit", "label", "annotate", "patch", "apply", "logs">>

\* the list without its first entry
non_namespace_resources_without_nodes == <<"namespaces", "clusterroles", "clusterrolebindings">>

non_namespace_resources == <<"nodes", "namespaces", "clusterroles", "clusterrolebindings">>

\* any(x in cmd_parts for x in words)
AnyIn(words, cmd_parts) == \E k \in 1..Len(words) : InList(words[k], cmd_parts)

\* [err, value]: err is the message of the ValueError shlex.split raised, or "";
\* K8S_CONTEXT = "" stands for None
inject_context_namespace(command, K8S_CONTEXT, K8S_NAMESPACE) ==
    IF ~(StartsWith(command, "kubectl") \/ StartsWith(command, "istioctl"))
    THEN [err |-> "", value |-> command]
    ELSE LET split == shlex_split(command) IN
        IF split.err # "" THEN [err |-> split.err, value |-> ""]
        ELSE LET parts0 == split.toks
                 parts1 == IF K8S_CONTEXT # "" /\ ~Contains(command, "--context")
                                /\ ~InList("--context", parts0)
                           THEN Insert1(parts0, "--context=" \o K8S_CONTEXT)
                           ELSE parts0
                 is_resource_command == AnyIn(resource_commands, parts1)
                 skips_namespace ==
                     InList("-A", parts1) \/ InList("--all-namespaces", parts1)
                         \/ InList("-n", parts1) \/ InList("--namespace", parts1)
                 targets_non_namespace_resource == AnyIn(non_namespace_resources, parts1)
                 parts2 == IF is_resource_command /\ ~skips_namespace
                                /\ ~targets_non_namespace_resource
                           THEN Insert1(parts1, "--namespace=" \o K8S_NAMESPACE)
                           ELSE parts1
             IN [err |-> "", value |-> JoinWith(" ", parts2)]

(***************************************************************************)
(* cli_executor.py: classification helpers                                 *)
(***************************************************************************)
UpperCase == "ABCDEFGHIJKLMNOPQRSTUVWXYZ"
LowerCase == "abcdefghijklmnopqrstuvwxyz"

\* the lower-case letter of every upper-case letter
LowerOf == [c \in { Ch(UpperCase, k) : k \in 1..26 } |->
               Ch(LowerCase, CHOOSE k \in 1..26 : Ch(UpperCase, k) = c)]

LowerCh(c) == IF c \in DOMAIN LowerOf THEN LowerOf[c] ELSE c

\* str.lower()
RECURSIVE Lower(_)
Lower(s) ==
    IF Len(s) = 0 THEN ""
    ELSE IF Len(s) = 1 THEN LowerCh(s)
    ELSE Lower(SubSeq(s, 1, Len(s) \div 2)) \o Lower(SubSeq(s, Len(s) \div 2 + 1, Len(s)))

auth_error_patterns ==
    <<"Unable to connect to the server", "Unauthorized", "forbidden", "Invalid kubeconfig",
      "Unable to load authentication", "Error loading config",
      "no configuration has been provided", "You must be logged in", "Error: Helm repo">>

\* pattern.lower() for every pattern
auth_error_patterns_lower ==
    [k \in 1..Len(auth_error_patterns) |-> Lower(auth_error_patterns[k])]

is_auth_error(error_output) ==
    LET lowered == Lower(error_output) IN
    \E k \in 1..Len(auth_error_patterns) : Contains(lowered, auth_error_patterns_lower[k])

\* the tool name, or "" for None
get_tool_from_command(command) ==
    LET cmd_parts == shlex_split(command) IN
    IF cmd_parts.err # "" \/ cmd_parts.toks = <<>> THEN ""
    ELSE IF cmd_parts.toks[1] \in ALLOWED_K8S_TOOLS THEN cmd_parts.toks[1] ELSE ""

auth_hint(cli_tool) ==
    IF cli_tool = "kubectl" THEN "\nPlease check your kubeconfig."
    ELSE IF cli_tool = "istioctl" THEN "\nPlease check your Istio configuration."
    ELSE IF cli_tool = "helm" THEN "\nPlease check your Helm repository configuration."
    ELSE IF cli_tool = "argocd" THEN "\nPlease check your ArgoCD login status."
    ELSE ""

DEFAULT_TIMEOUT == 300

MAX_OUTPUT_SIZE == 100000

TruncationMarker == "\n... (output truncated)"

\* A captured stream is [text, len, truncated]: len is its length in characters,
\* text the leading part of it that the code inspects (the rest is filler), and
\* truncated tells whether it ends with the truncation marker.
Stream(text) == [text |-> text, len |-> Len(text), truncated |-> FALSE]

\* a stream of n characters that starts with text
LongStream(text, n) == [text |-> text, len |-> n, truncated |-> FALSE]

\* truncation that also cuts a stdout of exactly MAX_OUTPUT_SIZE characters
truncate_output_at_limit(stdout_str) ==
    IF stdout_str.len >= MAX_OUTPUT_SIZE
    THEN [text      |-> IF Len(stdout_str.text) > MAX_OUTPUT_SIZE
                        THEN SubSeq(stdout_str.text, 1, MAX_OUTPUT_SIZE)
                        ELSE stdout_str.text,
          len       |-> MAX_OUTPUT_SIZE + Len(TruncationMarker),
          truncated |-> TRUE]
    ELSE stdout_str

\* stdout_str[:MAX_OUTPUT_SIZE] + marker when len(stdout_str) > MAX_OUTPUT_SIZE
truncate_output(stdout_str) ==
    IF stdout_str.len > MAX_OUTPUT_SIZE
    THEN [text      |-> IF Len(stdout_str.text) > MAX_OUTPUT_SIZE
                        THEN SubSeq(stdout_str.text, 1, MAX_OUTPUT_SIZE)
                        ELSE stdout_str.text,
          len       |-> MAX_OUTPUT_SIZE + Len(TruncationMarker),
          truncated |-> TRUE]
    ELSE stdout_str

\* prefix + stream + suffix
Wrap(prefix, stream, suffix) ==
    [text      |-> IF stream.len = Len(stream.text)
                   THEN prefix \o stream.text \o suffix ELSE prefix \o stream.text,
     len       |-> Len(prefix) + stream.len + Len(suffix),
     truncated |-> FALSE]

\* stderr_str or "Command failed with no error output"
stderr_or_default(stderr_str) ==
    IF stderr_str.len = 0 THEN Stream("Command failed with no error output") ELSE stderr_str

(***************************************************************************)
(* The state machine: one call of a public entry point, by its position.   *)
(***************************************************************************)
VARIABLES
    op,        \* the entry point called: "validate_command", "validate_pipe_command"
               \* (both of security.py) or "execute_command"
    command,   \* the command string the caller passed
    timeout,   \* the timeout argument of execute_command, 0 for None
    pc,        \* position of the call
    path,      \* "plain" or "pipe": the branch execute_command took
    cmdline,   \* the command after context/namespace injection
    spawned,   \* the command lines handed to create_subprocess_shell, in order
    killed,    \* "" until process.kill() is called, then "killed", or "raised"
               \* when the call raised (the failure is logged and dropped)
    proc,      \* what process.communicate() returned
    output,    \* stdout_str after decoding and truncation
    steps,     \* the steps of execute_command completed so far
    result     \* what the call returned or raised

\* the state of the REST gateway (app.py), which serves several calls at once
VARIABLES
    calls,     \* per call of execute_command_logic: its arguments, locals, position
    files,     \* the temporary directory: file name -> [owner, content]
    environ,   \* KUBECONFIG in os.environ of the server process
    children   \* the subprocesses spawned by create_subprocess_exec, in order

exec_vars == <<op, command, timeout, pc, path, cmdline, spawned, killed, proc, output, steps, result>>

rest_vars == <<calls, files, environ, children>>

\* several calls of execute_command in flight on one event loop
VARIABLES
    tasks,     \* per call: its arguments, locals, position and result
    processes  \* the subprocesses spawned by create_subprocess_shell, in order

conc_vars == <<tasks, processes>>

\* one call of a function of the package that keeps no state
VARIABLES
    fn,        \* the function called, "" before the call
    fn_args,   \* its arguments, after them the configuration values it reads
    fn_rets,   \* what it returned or raised; when it is applied again to what it
               \* returned, the values in order
    fn_effects \* what main() did so far: the records it logged and its calls of
               \* mcp.run, in order

fn_vars == <<fn, fn_args, fn_rets, fn_effects>>

vars == <<exec_vars, rest_vars, conc_vars, fn_vars>>

NoStream == Stream("")

NoProc == [returncode |-> -1, stdout |-> NoStream, stderr |-> NoStream]

NoResult == [kind |-> "", status |-> "", output |-> NoStream, exit_code |-> -1]

\* an exception of class kind with message msg
Raised(kind, msg) == [kind |-> kind, status |-> "", output |-> Stream(msg), exit_code |-> -1]

\* CommandResult(status=..., output=...) with no exit_code
CommandResult(status, out) ==
    [kind |-> "CommandResult", status |-> status, output |-> out, exit_code |-> -1]

\* CommandResult(status=..., output=..., exit_code=...)
CommandResultCode(status, out, code) ==
    [kind |-> "CommandResult", status |-> status, output |-> out, exit_code |-> code]

\* at most MaxCalls REST calls are in flight
MaxCalls == 2

\* KUBECONFIG of the server process when it starts
ParentKubeconfig == "/root/.kube/config"

\* a call slot before its request arrives
NoCall ==
    [pc |-> "idle", tool |-> "", command |-> "", namespace |-> "", kubeconfig_b64 |-> "",
     env |-> "", kubeconfig_path |-> "", cmd_parts |-> <<>>, child |-> 0,
     response |-> [success |-> FALSE, output |-> "", error |-> "", exit_code |-> 0]]

RestInit ==
    /\ calls = [i \in 1..MaxCalls |-> NoCall]
    /\ files = <<>>
    /\ environ = ParentKubeconfig
    /\ children = <<>>

\* a task before execute_command is called in it
NoTask ==
    [pc |-> "idle", command |-> "", timeout |-> 0, path |-> "", cmdline |-> "",
     process |-> 0, event |-> "", result |-> NoResult]

ConcInit ==
    /\ tasks = [i \in 1..MaxCalls |-> NoTask]
    /\ processes = <<>>

FnInit ==
    /\ fn = ""
    /\ fn_args = <<>>
    /\ fn_rets = <<>>
    /\ fn_effects = <<>>

Init ==
    /\ op = ""
    /\ command = ""
    /\ timeout = 0
    /\ pc = "idle"
    /\ path = ""
    /\ cmdline = ""
    /\ spawned = <<>>
    /\ killed = ""
    /\ proc = NoProc
    /\ output = NoStream
    /\ steps = <<>>
    /\ result = NoResult
    /\ RestInit
    /\ ConcInit
    /\ FnInit

\* a caller invokes entry point o on command c (with timeout argument t)
Call(o, c, t) ==
    /\ pc = "idle"
    /\ op' = o
    /\ command' = c
    /\ timeout' = t
    /\ pc' = "start"
    /\ UNCHANGED <<path, cmdline, spawned, killed, proc, output, steps, result>>

\* what the caller of security.validate_command sees when it returned v
validation_result(v) ==
    IF v.exc = "" THEN [NoResult EXCEPT !.kind = "None"] ELSE Raised(v.exc, v.msg)

\* security.validate_command runs to completion
SecurityValidate ==
    /\ pc = "start"
    /\ op = "validate_command"
    /\ result' = validation_result(validate_command(command))
    /\ pc' = "done"
    /\ UNCHANGED <<op, command, timeout, path, cmdline, spawned, killed, proc, output, steps>>

\* security.validate_pipe_command runs to completion
SecurityValidatePipe ==
    /\ pc = "start"
    /\ op = "validate_pipe_command"
    /\ result' = validation_result(validate_pipe_command(command))
    /\ pc' = "done"
    /\ UNCHANGED <<op, command, timeout, path, cmdline, spawned, killed, proc, output, steps>>

\* what the validation step of execute_command raises: the plain path calls
\* validate_k8s_command, the pipe path validate_pipe_command and rewraps its
\* CommandValidationError
executor_validation(c) ==
    IF is_pipe_command(c)
    THEN LET v == cli_validate_pipe_command(c) IN
         IF v.exc = "CommandValidationError"
         THEN Raise("CommandValidationError", "Invalid pipe command: " \o v.msg)
         ELSE v
    ELSE cli_validate_k8s_command(c)

\* execute_command going on to injection whatever validation returned
after_validation_ignored(v) == "inject"

\* where execute_command goes once validation has returned v
after_validation(v) == IF v.exc = "" THEN "inject" ELSE "done"

\* validation returned v: go on, or leave with the exception it raised
Validated(v) ==
    /\ pc' = after_validation(v)
    /\ result' = IF v.exc = "" THEN result ELSE Raised(v.exc, v.msg)

\* execute_command: pipe dispatch and validation
ExecValidate ==
    /\ pc = "start"
    /\ op = "execute_command"
    /\ Validated(executor_validation(command))
    /\ path' = IF is_pipe_command(command) THEN "pipe" ELSE "plain"
    /\ steps' = Append(steps, "validate")
    /\ UNCHANGED <<op, command, timeout, cmdline, spawned, killed, proc, output>>

\* the command line execute_command builds after validation
injected_command(c, p, ctx, ns) ==
    IF p = "plain" THEN inject_context_namespace(c, ctx, ns)
    ELSE LET commands == split_pipe_command(c)
             first    == inject_context_namespace(commands[1], ctx, ns) IN
         IF first.err # "" THEN first
         ELSE IF Len(commands) > 1
         THEN [err |-> "", value |-> first.value \o " | " \o JoinWith(" | ", Tail(commands))]
         ELSE first

\* injection returned inj: the rewritten command line, or the tokenizer's error
Injected(inj) ==
    IF inj.err # ""
    THEN /\ pc' = "done"
         /\ result' = Raised("ValueError", inj.err)
         /\ cmdline' = cmdline
    ELSE /\ pc' = "spawn"
         /\ cmdline' = inj.value
         /\ result' = result

\* execute_command: context/namespace injection, under the configured
\* K8S_CONTEXT (ctx, "" for None) and K8S_NAMESPACE (ns)
ExecInject(ctx, ns) ==
    /\ pc = "inject"
    /\ Injected(injected_command(command, path, ctx, ns))
    /\ steps' = Append(steps, "inject")
    /\ UNCHANGED <<op, command, timeout, path, spawned, killed, proc, output>>

\* asyncio.create_subprocess_shell(cmdline) returns a process
ExecSpawn ==
    /\ pc = "spawn"
    /\ spawned' = Append(spawned, cmdline)
    /\ pc' = "wait"
    /\ steps' = Append(steps, "spawn")
    /\ UNCHANGED <<op, command, timeout, path, cmdline, killed, proc, output, result>>

\* asyncio.create_subprocess_shell raises (e.g. OSError): the plain path wraps
\* it, the pipe path turns it into an error result
ExecSpawnFails ==
    /\ pc = "spawn"
    /\ pc' = "done"
    /\ result' = IF path = "plain"
                 THEN Raised("CommandExecutionError", "Failed to execute command: spawn failed")
                 ELSE CommandResult("error", Stream("Failed to execute command: spawn failed"))
    /\ steps' = Append(steps, "spawn")
    /\ UNCHANGED <<op, command, timeout, path, cmdline, spawned, killed, proc, output>>

\* the timeout in force: the argument, or DEFAULT_TIMEOUT when it is None
effective_timeout(t) == IF t = 0 THEN DEFAULT_TIMEOUT ELSE t

timeout_message(t) == "Command timed out after " \o ToString(effective_timeout(t)) \o " seconds"

\* process.communicate() completes within the timeout with outcome o
ExecWaitCompletes(o) ==
    /\ pc = "wait"
    /\ proc' = o
    /\ pc' = "decode"
    /\ steps' = Append(steps, "wait")
    /\ UNCHANGED <<op, command, timeout, path, cmdline, spawned, killed, output, result>>

\* try: process.kill() / except Exception: logger.error(...)
kill(kill_raises) == IF kill_raises THEN "raised" ELSE "killed"

\* what the timeout handler leaves behind.  The plain path catches
\* asyncio.TimeoutError, kills and raises CommandExecutionError, which the outer
\* handler wraps once more.  The pipe path catches the builtin TimeoutError,
\* which is asyncio.TimeoutError only when builtin_alias holds (Python 3.11 and
\* later); otherwise the exception reaches the generic handler of
\* execute_piped_command, which kills nothing and reports str(e), the empty string.
timed_out(p, t, builtin_alias, kill_raises) ==
    IF p = "plain"
    THEN [killed |-> kill(kill_raises),
          result |-> Raised("CommandExecutionError",
                            "Failed to execute command: " \o timeout_message(t))]
    ELSE IF builtin_alias
    THEN [killed |-> kill(kill_raises),
          result |-> CommandResult("error", Stream(timeout_message(t)))]
    ELSE [killed |-> "",
          result |-> CommandResult("error", Stream("Failed to execute command: "))]

\* asyncio.wait_for raises asyncio.TimeoutError
ExecWaitTimesOut(builtin_alias, kill_raises) ==
    /\ pc = "wait"
    /\ pc' = "done"
    /\ killed' = timed_out(path, timeout, builtin_alias, kill_raises).killed
    /\ result' = timed_out(path, timeout, builtin_alias, kill_raises).result
    /\ steps' = Append(steps, "wait")
    /\ UNCHANGED <<op, command, timeout, path, cmdline, spawned, proc, output>>

\* a cancellation turned into the error of the generic handlers
cancelled_swallowed(p) ==
    IF p = "plain" THEN Raised("CommandExecutionError", "Failed to execute command: ")
    ELSE CommandResult("error", Stream("Failed to execute command: "))

\* what the caller sees when the task is cancelled at an await of path p:
\* CancelledError is a BaseException, so no `except Exception` handler of
\* execute_piped_command, execute_pipe_command or execute_command takes it, and
\* execute_command re-raises it explicitly
cancelled(p) == Raised("CancelledError", "")

\* the awaiting task is cancelled while create_subprocess_shell or
\* wait_for(process.communicate()) is pending
ExecCancelled ==
    /\ pc \in {"spawn", "wait"}
    /\ pc' = "done"
    /\ result' = cancelled(path)
    /\ steps' = Append(steps, pc)
    /\ UNCHANGED <<op, command, timeout, path, cmdline, spawned, killed, proc, output>>

\* decode stdout and truncate it
ExecDecode ==
    /\ pc = "decode"
    /\ output' = truncate_output(proc.stdout)
    /\ pc' = "classify"
    /\ steps' = Append(steps, "decode")
    /\ UNCHANGED <<op, command, timeout, path, cmdline, spawned, killed, proc, result>>

\* the result of execute_command (plain path) for a completed process
classify_plain(c, p, out) ==
    IF p.returncode # 0 THEN
        IF is_auth_error(p.stderr.text)
        THEN IF shlex_split(c).err # ""
             \* get_tool_from_command raises ValueError, the generic handler wraps it
             THEN Raised("CommandExecutionError",
                         "Failed to execute command: " \o shlex_split(c).err)
             ELSE CommandResult("error",
                      Wrap("Authentication error: ", p.stderr,
                           auth_hint(get_tool_from_command(c))))
        ELSE CommandResult("error", stderr_or_default(p.stderr))
    ELSE CommandResult("success", out)

\* the result of execute_piped_command for a completed process
classify_piped(p, out) ==
    IF p.returncode # 0
    THEN CommandResultCode("error", stderr_or_default(p.stderr), p.returncode)
    ELSE CommandResultCode("success", out, p.returncode)

\* build the result from the exit code and stderr
ExecClassify ==
    /\ pc = "classify"
    /\ result' = IF path = "plain" THEN classify_plain(cmdline, proc, output)
                 ELSE classify_piped(proc, output)
    /\ pc' = "done"
    /\ steps' = Append(steps, "classify")
    /\ UNCHANGED <<op, command, timeout, path, cmdline, spawned, killed, proc, output>>

(***************************************************************************)
(* Inputs: command strings are a stem followed by up to MaxArgs fragments. *)
(***************************************************************************)
MaxArgs == 2

\* dangerous prefixes of the policy engine: all of kubectl's, and for each
\* other tool one the executor's table has and one it lacks
DangerousStems ==
    {"kubectl delete", "kubectl drain", "kubectl replace --force", "kubectl exec",
     "kubectl port-forward", "kubectl cp",
     "istioctl experimental", "istioctl dashboard",
     "helm delete", "helm upgrade",
     "argocd app delete", "argocd app set"}

\* commands that start with a safe pattern
SafeStems ==
    {"kubectl delete pod", "kubectl delete secret", "kubectl exec -it pod",
     "kubectl exec -it pod-name -- /bin/bash", "istioctl experimental -h"}

Stems ==
    DangerousStems \cup SafeStems \cup
    {"", "kubectl", "grep nginx", "invalid command", "kubectl get pods", "istioctl analyze",
     "helm list", "argocd app list", "kubectl delete pod my-pod", "kubectl exec pod",
     "kubectl exec pod -- /bin/bash", "\"kubectl x\" get pods"}

ArgFragments ==
    {" -- bash", " -- ls", " -c 'ls -la'", " --help",
     " | grep nginx", " | grep 'a|b'", " | invalidcommand", " |", "; rm -rf /",
     " \"'\"", " '"}

RECURSIVE Concat(_)
Concat(parts) == IF parts = <<>> THEN "" ELSE parts[1] \o Concat(Tail(parts))

ArgLists == UNION { [1..n -> ArgFragments] : n \in 0..MaxArgs }

Commands == { stem \o Concat(args) : stem \in Stems, args \in ArgLists }

\* explicit timeout arguments, and the commands called with one
ExplicitTimeouts == {5}

TimedCommands == {"kubectl get pods", "helm list | grep nginx"}

\* configured K8S_CONTEXT values ("" for None) and K8S_NAMESPACE values
Contexts == {"", "prod"}

Namespaces == {"default"}

\* what the subprocess can report
ProcOutcomes ==
    {[returncode |-> 0, stdout |-> Stream("pod-1 Running"), stderr |-> NoStream],
     [returncode |-> 1, stdout |-> NoStream,
      stderr |-> Stream("error: You must be logged in to the server (Unauthorized)")],
     [returncode |-> 1, stdout |-> NoStream, stderr |-> Stream("Error from server (NotFound)")],
     [returncode |-> 0, stdout |-> LongStream("pod-1 Running", MAX_OUTPUT_SIZE),
      stderr |-> NoStream],
     [returncode |-> 0, stdout |-> LongStream("pod-1 Running", MAX_OUTPUT_SIZE + 1),
      stderr |-> NoStream],
     [returncode |-> 0, stdout |-> LongStream("pod-1 Running", 150000), stderr |-> NoStream]}

Next ==
    \/ pc = "idle" /\ UNCHANGED <<rest_vars, conc_vars, fn_vars>>
          /\ \E c \in Commands : Call("validate_command", c, 0)
    \/ pc = "idle" /\ UNCHANGED <<rest_vars, conc_vars, fn_vars>>
          /\ \E c \in Commands : Call("validate_pipe_command", c, 0)
    \/ pc = "idle" /\ UNCHANGED <<rest_vars, conc_vars, fn_vars>>
          /\ \E c \in Commands : Call("execute_command", c, 0)
    \/ pc = "idle" /\ UNCHANGED <<rest_vars, conc_vars, fn_vars>>
          /\ \E c \in TimedCommands, t \in ExplicitTimeouts : Call("execute_command", c, t)
    \/ SecurityValidate /\ UNCHANGED <<rest_vars, conc_vars, fn_vars>>
    \/ SecurityValidatePipe /\ UNCHANGED <<rest_vars, conc_vars, fn_vars>>
    \/ ExecValidate /\ UNCHANGED <<rest_vars, conc_vars, fn_vars>>
    \/ pc = "inject" /\ UNCHANGED <<rest_vars, conc_vars, fn_vars>>
          /\ \E ctx \in Contexts, ns \in Namespaces : ExecInject(ctx, ns)
    \/ ExecSpawn /\ UNCHANGED <<rest_vars, conc_vars, fn_vars>>
    \/ ExecSpawnFails /\ UNCHANGED <<rest_vars, conc_vars, fn_vars>>
    \/ pc = "wait" /\ UNCHANGED <<rest_vars, conc_vars, fn_vars>>
          /\ \E o \in ProcOutcomes : ExecWaitCompletes(o)
    \/ pc = "wait" /\ UNCHANGED <<rest_vars, conc_vars, fn_vars>>
          /\ \E builtin_alias \in BOOLEAN, kill_raises \in BOOLEAN :
                 ExecWaitTimesOut(builtin_alias, kill_raises)
    \/ ExecCancelled /\ UNCHANGED <<rest_vars, conc_vars, fn_vars>>
    \/ ExecDecode /\ UNCHANGED <<rest_vars, conc_vars, fn_vars>>
    \/ ExecClassify /\ UNCHANGED <<rest_vars, conc_vars, fn_vars>>

Spec == Init /\ [][Next]_vars

(***************************************************************************)
(* The REST gateway (app.py): credential bundles.  Bytes are numbers in    *)
(* 0..255.                                                                 *)
(***************************************************************************)
B64Alphabet == "ABCDEFGHIJKLMNOPQRSTUVWXYZabcdefghijklmnopqrstuvwxyz0123456789+/"

\* the value of base64 digit c, 64 for any other character
B64Value(c) ==
    IF \E k \in 1..64 : Ch(B64Alphabet, k) = c
    THEN (CHOOSE k \in 1..64 : Ch(B64Alphabet, k) = c) - 1
    ELSE 64

B64Init == [quad_pos |-> 0, leftchar |-> 0, pads |-> 0, out |-> <<>>, n |-> 0, done |-> FALSE]

\* binascii.a2b_base64 on one character, not in strict mode: other characters
\* are skipped, and a completed pad sequence ends the parse
b64_step(st, c) ==
    IF st.done THEN st
    ELSE IF c = "="
    THEN IF st.quad_pos >= 2 /\ st.quad_pos + st.pads + 1 >= 4
         THEN [st EXCEPT !.pads = st.pads + 1, !.done = TRUE]
         ELSE IF st.quad_pos >= 2 THEN [st EXCEPT !.pads = st.pads + 1] ELSE st
    ELSE IF B64Value(c) = 64 THEN st
    ELSE LET v == B64Value(c) IN
         IF st.quad_pos = 0
         THEN [st EXCEPT !.quad_pos = 1, !.leftchar = v, !.pads = 0, !.n = st.n + 1]
         ELSE IF st.quad_pos = 1
         THEN [st EXCEPT !.quad_pos = 2, !.leftchar = v % 16, !.pads = 0, !.n = st.n + 1,
                         !.out = Append(st.out, st.leftchar * 4 + v \div 16)]
         ELSE IF st.quad_pos = 2
         THEN [st EXCEPT !.quad_pos = 3, !.leftchar = v % 4, !.pads = 0, !.n = st.n + 1,
                         !.out = Append(st.out, st.leftchar * 16 + v \div 4)]
         ELSE [st EXCEPT !.quad_pos = 0, !.leftchar = 0, !.pads = 0, !.n = st.n + 1,
                         !.out = Append(st.out, st.leftchar * 64 + v)]

RECURSIVE b64_scan(_, _)
b64_scan(s, st) == IF s = "" THEN st ELSE b64_scan(SubSeq(s, 2, Len(s)), b64_step(st, Ch(s, 1)))

\* base64.b64decode(s): [err, bytes], err "" when it returns
b64decode(s) ==
    LET st == b64_scan(s, B64Init) IN
    IF st.done \/ st.quad_pos = 0 THEN [err |-> "", bytes |-> st.out]
    ELSE IF st.quad_pos = 1
    THEN [err |-> "Invalid base64-encoded string: number of data characters ("
                      \o ToString(st.n) \o ") cannot be 1 more than a multiple of 4",
          bytes |-> <<>>]
    ELSE [err |-> "Incorrect padding", bytes |-> <<>>]

\* the length of the UTF-8 sequence that starts at the head of bytes b, 0 when
\* none does
utf8_sequence(b) ==
    LET cont(k) == k <= Len(b) /\ b[k] \in 128..191 IN
    IF b[1] < 128 THEN 1
    ELSE IF b[1] \in 194..223 THEN IF cont(2) THEN 2 ELSE 0
    ELSE IF b[1] \in 224..239
    THEN IF /\ cont(2) /\ cont(3)
            /\ (b[1] = 224 => b[2] >= 160)
            /\ (b[1] = 237 => b[2] <= 159) THEN 3 ELSE 0
    ELSE IF b[1] \in 240..244
    THEN IF /\ cont(2) /\ cont(3) /\ cont(4)
            /\ (b[1] = 240 => b[2] >= 144)
            /\ (b[1] = 244 => b[2] <= 143) THEN 4 ELSE 0
    ELSE 0

\* whether bytes.decode('utf-8') returns rather than raising UnicodeDecodeError
RECURSIVE utf8_decodes(_)
utf8_decodes(b) ==
    IF b = <<>> THEN TRUE
    ELSE IF utf8_sequence(b) = 0 THEN FALSE
    ELSE utf8_decodes(SubSeq(b, utf8_sequence(b) + 1, Len(b)))

\* str.split(): the words of s between runs of whitespace
RECURSIVE split_words(_)
split_words(s) ==
    LET t == LStrip(s)
        k == IF \E j \in 1..Len(t) : Ch(t, j) \in Whitespace
             THEN (CHOOSE j \in 1..Len(t) :
                       Ch(t, j) \in Whitespace /\ \A h \in 1..(j - 1) : Ch(t, h) \notin Whitespace) - 1
             ELSE Len(t) IN
    IF t = "" THEN <<>>
    ELSE <<SubSeq(t, 1, k)>> \o split_words(SubSeq(t, k + 1, Len(t)))

\* [tool] + command.split(), with -n namespace after the tool for kubectl and helm
rest_cmd_parts(tool, c, namespace) ==
    IF tool \in {"kubectl", "helm"} /\ namespace # ""
    THEN <<tool, "-n", namespace>> \o split_words(c)
    ELSE <<tool>> \o split_words(c)

\* CommandResponse(success=..., output=..., error=..., exit_code=...), error "" for None
CommandResponse(success, out, error, exit_code) ==
    [success |-> success, output |-> out, error |-> error, exit_code |-> exit_code]

\* the bundle an endpoint passes on: x_kubeconfig or req.kubeconfig
effective_kubeconfig(x_kubeconfig, kubeconfig) ==
    IF x_kubeconfig # "" THEN x_kubeconfig ELSE kubeconfig

\* a NamedTemporaryFile that may reuse the name of an existing file
available_names_any(fs) == { "/tmp/tmp" \o ToString(k) \o ".yaml" : k \in 1..MaxCalls }

\* the names NamedTemporaryFile can create in a directory holding files fs: any
\* name of the pool that does not exist (a call creates at most one file)
TempNames == { "/tmp/tmp" \o ToString(k) \o ".yaml" : k \in 1..MaxCalls }

available_names(fs) == TempNames \ DOMAIN fs

\* the directory after a file is created or overwritten
write_file(fs, name, owner, content) ==
    [n \in DOMAIN fs \cup {name} |->
        IF n = name THEN [owner |-> owner, content |-> content] ELSE fs[n]]

\* the finally block: os.remove(kubeconfig_path) if the path is set and exists
cleanup(fs, kubeconfig_path) ==
    IF kubeconfig_path # "" /\ kubeconfig_path \in DOMAIN fs
    THEN [n \in DOMAIN fs \ {kubeconfig_path} |-> fs[n]]
    ELSE fs

\* what lines 81-95 leave behind for bundle b64, decoded by b64decode, when the
\* temporary file gets name: b64decode fails before the file is created;
\* decode('utf-8') fails after it was created and before kubeconfig_path is
\* assigned
loaded(fs, i, b64, name, decoded) ==
    IF b64 = "" THEN [files |-> fs, kubeconfig_path |-> "", err |-> ""]
    ELSE IF decoded.err # ""
    THEN [files |-> fs, kubeconfig_path |-> "",
          err |-> "Invalid base64 kubeconfig: " \o decoded.err]
    ELSE IF ~utf8_decodes(decoded.bytes)
    THEN [files |-> write_file(fs, name, i, <<>>), kubeconfig_path |-> "",
          err |-> "Invalid base64 kubeconfig: 'utf-8' codec can't decode"]
    ELSE [files |-> write_file(fs, name, i, decoded.bytes), kubeconfig_path |-> name,
          err |-> ""]

\* lines 81-95 on bundle b64
load_kubeconfig(fs, i, b64, name) == loaded(fs, i, b64, name, b64decode(b64))

\* call i after its bundle b64 was loaded with outcome l: it has returned the
\* error response (the finally block runs on that return), or built cmd_parts
\* and is about to spawn
Posted(i, req, b64, l) ==
    IF l.err # ""
    THEN /\ calls' = [calls EXCEPT ![i] =
                [@ EXCEPT !.pc = "returned", !.tool = req.tool, !.command = req.command,
                          !.namespace = req.namespace, !.kubeconfig_b64 = b64,
                          !.env = environ,
                          !.response = CommandResponse(FALSE, "", l.err, -1)]]
         /\ files' = cleanup(l.files, l.kubeconfig_path)
    ELSE /\ calls' = [calls EXCEPT ![i] =
                [@ EXCEPT !.pc = "spawn", !.tool = req.tool, !.command = req.command,
                          !.namespace = req.namespace, !.kubeconfig_b64 = b64,
                          !.kubeconfig_path = l.kubeconfig_path,
                          !.env = IF l.kubeconfig_path # "" THEN l.kubeconfig_path ELSE environ,
                          !.cmd_parts = rest_cmd_parts(req.tool, req.command, req.namespace)]]
         /\ files' = l.files

\* a request reaches a tool endpoint: execute_command_logic runs up to its
\* first await (create_subprocess_exec), or returns at once when the bundle is
\* refused
RestPost(i, req, name) ==
    /\ calls[i].pc = "idle"
    /\ IF i = 1 THEN TRUE ELSE calls[i - 1].pc # "idle"
    /\ Posted(i, req, effective_kubeconfig(req.x_kubeconfig, req.kubeconfig),
              load_kubeconfig(files, i, effective_kubeconfig(req.x_kubeconfig, req.kubeconfig),
                              name))
    /\ UNCHANGED <<environ, children>>

\* create_subprocess_exec returns a process running cmd_parts under env
RestSpawn(i) ==
    /\ calls[i].pc = "spawn"
    /\ children' = Append(children, [call |-> i, argv |-> calls[i].cmd_parts,
                                     kubeconfig |-> calls[i].env, state |-> "running",
                                     returncode |-> 0, stdout |-> "", stderr |-> ""])
    /\ calls' = [calls EXCEPT ![i] = [@ EXCEPT !.pc = "communicate",
                                               !.child = Len(children) + 1]]
    /\ UNCHANGED <<files, environ>>

\* the response of the handler for exception exc raised by create_subprocess_exec
spawn_error(exc, tool) ==
    IF exc = "FileNotFoundError"
    THEN CommandResponse(FALSE, "",
             "Command '" \o tool \o "' not found. Please ensure " \o tool
                 \o " is installed and in PATH.", -1)
    ELSE CommandResponse(FALSE, "", exc, -1)

\* create_subprocess_exec raises exc; the handler answers and the finally block runs
RestSpawnFails(i, exc) ==
    /\ calls[i].pc = "spawn"
    /\ calls' = [calls EXCEPT ![i] =
           [@ EXCEPT !.pc = "returned", !.response = spawn_error(exc, calls[i].tool)]]
    /\ files' = cleanup(files, calls[i].kubeconfig_path)
    /\ UNCHANGED <<environ, children>>

\* subprocess k exits with outcome o
ChildExits(k, o) ==
    /\ children[k].state = "running"
    /\ children' = [children EXCEPT ![k] =
           [@ EXCEPT !.state = "exited", !.returncode = o.returncode,
                     !.stdout = o.stdout, !.stderr = o.stderr]]
    /\ UNCHANGED <<calls, files, environ>>

\* the response built from a completed process p
rest_response(p) == CommandResponse(p.returncode = 0, p.stdout, p.stderr, p.returncode)

\* the process handle call i communicates with
rest_process(i) == children[calls[i].child]

\* process.communicate() returns once the subprocess has exited (it is awaited
\* without a timeout); the call answers and the finally block runs
RestCommunicate(i) ==
    /\ calls[i].pc = "communicate"
    /\ rest_process(i).state = "exited"
    /\ calls' = [calls EXCEPT ![i] =
           [@ EXCEPT !.pc = "returned", !.response = rest_response(rest_process(i))]]
    /\ files' = cleanup(files, calls[i].kubeconfig_path)
    /\ UNCHANGED <<environ, children>>

\* requests: POST /tools/<tool> with body command, namespace, kubeconfig and
\* header X-Kubeconfig.  The bundles are two valid ones ("k: A", "k: B"), one
\* with incorrect padding and one that decodes to the byte 0xff.
RestRequests ==
    {[tool |-> "kubectl", command |-> "get pods", namespace |-> "",
      x_kubeconfig |-> "", kubeconfig |-> "azogQQ=="],
     [tool |-> "kubectl", command |-> "delete", namespace |-> "prod",
      x_kubeconfig |-> "azogQg==", kubeconfig |-> "azogQQ=="],
     [tool |-> "helm", command |-> "uninstall web", namespace |-> "",
      x_kubeconfig |-> "", kubeconfig |-> ""],
     [tool |-> "kubectl", command |-> "get pods", namespace |-> "",
      x_kubeconfig |-> "", kubeconfig |-> "azo"],
     [tool |-> "helm", command |-> "list", namespace |-> "prod",
      x_kubeconfig |-> "/w==", kubeconfig |-> ""]}

SpawnErrors == {"FileNotFoundError", "PermissionError"}

ChildOutcomes ==
    {[returncode |-> 0, stdout |-> "ok", stderr |-> ""],
     [returncode |-> 1, stdout |-> "", stderr |-> "boom"]}

NextRest ==
    \/ UNCHANGED <<exec_vars, conc_vars, fn_vars>>
          /\ \E i \in {j \in 1..MaxCalls : calls[j].pc = "idle"}, req \in RestRequests :
                 \E name \in available_names(files) : RestPost(i, req, name)
    \/ UNCHANGED <<exec_vars, conc_vars, fn_vars>> /\ \E i \in 1..MaxCalls : RestSpawn(i)
    \/ UNCHANGED <<exec_vars, conc_vars, fn_vars>>
          /\ \E i \in 1..MaxCalls, exc \in SpawnErrors : RestSpawnFails(i, exc)
    \/ UNCHANGED <<exec_vars, conc_vars, fn_vars>>
          /\ \E k \in 1..Len(children), o \in ChildOutcomes : ChildExits(k, o)
    \/ UNCHANGED <<exec_vars, conc_vars, fn_vars>> /\ \E i \in 1..MaxCalls : RestCommunicate(i)

SpecRest == Init /\ [][NextRest]_vars

\* the event loop resumes a call whose await can complete: create_subprocess_exec
\* returns or raises, and communicate() returns once the subprocess has exited
RestResumes(i) ==
    \/ RestSpawn(i)
    \/ \E exc \in SpawnErrors : RestSpawnFails(i, exc)
    \/ RestCommunicate(i)

\* the gateway under a fair event loop.  Nothing makes a subprocess exit:
\* ChildExits is under no fairness condition.
SpecRestLive ==
    SpecRest /\ \A i \in 1..MaxCalls :
                    WF_vars(RestResumes(i) /\ UNCHANGED <<exec_vars, conc_vars, fn_vars>>)

(***************************************************************************)
(* Concurrent calls of execute_command.  A coroutine runs without          *)
(* interruption between two awaits, so a call is modelled by its stretches *)
(* between create_subprocess_shell and wait_for(process.communicate()).    *)
(***************************************************************************)
\* the configured K8S_CONTEXT ("" for None) and K8S_NAMESPACE: the defaults
K8S_CONTEXT == ""

K8S_NAMESPACE == "default"

\* the branch execute_command takes on command c
path_of(c) == IF is_pipe_command(c) THEN "pipe" ELSE "plain"

\* a call of execute_command(c, t) on path p after validation returned v and
\* injection inj: it has left with an exception, or is about to spawn
begun(c, t, p, v, inj) ==
    IF after_validation(v) = "done"
    THEN [NoTask EXCEPT !.pc = "done", !.command = c, !.timeout = t, !.path = p,
                        !.event = "refused", !.result = Raised(v.exc, v.msg)]
    ELSE IF inj.err # ""
    THEN [NoTask EXCEPT !.pc = "done", !.command = c, !.timeout = t, !.path = p,
                        !.event = "refused", !.result = Raised("ValueError", inj.err)]
    ELSE [NoTask EXCEPT !.pc = "spawn", !.command = c, !.timeout = t, !.path = p,
                        !.cmdline = inj.value]

\* execute_command(c, t) from entry to its first await: pipe dispatch,
\* validation and injection
started(c, t) ==
    begun(c, t, path_of(c), executor_validation(c),
          injected_command(c, path_of(c), K8S_CONTEXT, K8S_NAMESPACE))

\* a task calls execute_command(c, t)
ConcStart(i, c, t) ==
    /\ tasks[i].pc = "idle"
    /\ IF i = 1 THEN TRUE ELSE tasks[i - 1].pc # "idle"
    /\ tasks' = [tasks EXCEPT ![i] = started(c, t)]
    /\ UNCHANGED processes

\* create_subprocess_shell returns the process; the call awaits communicate()
ConcSpawn(i) ==
    /\ tasks[i].pc = "spawn"
    /\ processes' = Append(processes, [owner |-> i, cmdline |-> tasks[i].cmdline,
                                       state |-> "running", outcome |-> NoProc])
    /\ tasks' = [tasks EXCEPT ![i] = [@ EXCEPT !.pc = "wait", !.process = Len(processes) + 1]]

\* what a call of path p returns when create_subprocess_shell raises
spawn_failed(p) ==
    IF p = "plain"
    THEN Raised("CommandExecutionError", "Failed to execute command: spawn failed")
    ELSE CommandResult("error", Stream("Failed to execute command: spawn failed"))

ConcSpawnFails(i) ==
    /\ tasks[i].pc = "spawn"
    /\ tasks' = [tasks EXCEPT ![i] = [@ EXCEPT !.pc = "done", !.event = "spawn failed",
                                               !.result = spawn_failed(tasks[i].path)]]
    /\ UNCHANGED processes

\* subprocess k exits and reports o
ProcessExits(k, o) ==
    /\ processes[k].state = "running"
    /\ processes' = [processes EXCEPT ![k] = [@ EXCEPT !.state = "exited", !.outcome = o]]
    /\ UNCHANGED tasks

\* a process handle that names whatever was spawned last
latest_process(ps, handle) == ps[Len(ps)]

\* the process behind the local variable `process` of a call
own_process(ps, handle) == ps[handle]

\* decode, truncate and classify what the process reported
completed(p, line, o) ==
    IF p = "plain" THEN classify_plain(line, o, truncate_output(o.stdout))
    ELSE classify_piped(o, truncate_output(o.stdout))

\* communicate() returns within the timeout; the call runs on to its result
ConcWaitReturns(i) ==
    /\ tasks[i].pc = "wait"
    /\ own_process(processes, tasks[i].process).state = "exited"
    /\ tasks' = [tasks EXCEPT ![i] =
           [@ EXCEPT !.pc = "done", !.event = "exited",
                     !.result = completed(tasks[i].path, tasks[i].cmdline,
                                          own_process(processes, tasks[i].process).outcome)]]
    /\ UNCHANGED processes

\* wait_for raises asyncio.TimeoutError while the subprocess is running
ConcTimesOut(i, builtin_alias, kill_raises) ==
    /\ tasks[i].pc = "wait"
    /\ processes[tasks[i].process].state = "running"
    /\ LET t == timed_out(tasks[i].path, tasks[i].timeout, builtin_alias, kill_raises) IN
       /\ tasks' = [tasks EXCEPT ![i] =
              [@ EXCEPT !.pc = "done", !.event = "timed out", !.result = t.result]]
       /\ processes' = IF t.killed = "killed"
                       THEN [processes EXCEPT ![tasks[i].process].state = "killed"]
                       ELSE processes

\* the task is cancelled at one of its two awaits
ConcCancelled(i) ==
    /\ tasks[i].pc \in {"spawn", "wait"}
    /\ tasks' = [tasks EXCEPT ![i] = [@ EXCEPT !.pc = "done", !.event = "cancelled",
                                               !.result = cancelled(tasks[i].path)]]
    /\ UNCHANGED processes

\* the calls issued: a plain command, a pipe with a timeout, a refused command
ConcCalls ==
    {<<"kubectl get pods", 0>>, <<"helm list | grep nginx", 5>>, <<"kubectl delete", 0>>}

ConcOutcomes ==
    {[returncode |-> 0, stdout |-> Stream("pod-1 Running"), stderr |-> NoStream],
     [returncode |-> 1, stdout |-> NoStream, stderr |-> Stream("Error from server (NotFound)")]}

NextConc ==
    \/ UNCHANGED <<exec_vars, rest_vars, fn_vars>>
          /\ \E i \in 1..MaxCalls, call \in ConcCalls : ConcStart(i, call[1], call[2])
    \/ UNCHANGED <<exec_vars, rest_vars, fn_vars>> /\ \E i \in 1..MaxCalls : ConcSpawn(i)
    \/ UNCHANGED <<exec_vars, rest_vars, fn_vars>> /\ \E i \in 1..MaxCalls : ConcSpawnFails(i)
    \/ UNCHANGED <<exec_vars, rest_vars, fn_vars>>
          /\ \E k \in 1..Len(processes), o \in ConcOutcomes : ProcessExits(k, o)
    \/ UNCHANGED <<exec_vars, rest_vars, fn_vars>> /\ \E i \in 1..MaxCalls : ConcWaitReturns(i)
    \/ UNCHANGED <<exec_vars, rest_vars, fn_vars>>
          /\ \E i \in 1..MaxCalls, builtin_alias \in BOOLEAN, kill_raises \in BOOLEAN :
                 ConcTimesOut(i, builtin_alias, kill_raises)
    \/ UNCHANGED <<exec_vars, rest_vars, fn_vars>> /\ \E i \in 1..MaxCalls : ConcCancelled(i)

SpecConc == Init /\ [][NextConc]_vars

(***************************************************************************)
(* The shell that runs a spawned command line: POSIX quoting.  A quote     *)
(* character inside the other kind of quotes is an ordinary character, a   *)
(* backslash escapes the next character outside quotes and inside double   *)
(* quotes, and command substitution stays active inside double quotes.     *)
(* Command substitution is modelled in its $(...) form only: the backquote *)
(* character cannot be written in a TLA+ string.                           *)
(***************************************************************************)
ShellControlChars == {";", "&", "<", ">", "(", ")", "\n"}

ShellInit == [mode |-> "n", prev |-> "", control |-> FALSE, pipes |-> 0,
              stage |-> "", stages |-> <<>>]

\* one character c read by the shell; mode is n (unquoted), s, d (inside
\* single, double quotes), e, de (after a backslash, unquoted or in double quotes)
shell_step(st, c) ==
    LET keep == [st EXCEPT !.prev = c, !.stage = st.stage \o c] IN
    IF st.mode = "n" THEN
        IF c = "\\" THEN [keep EXCEPT !.mode = "e"]
        ELSE IF c = "'" THEN [keep EXCEPT !.mode = "s"]
        ELSE IF c = "\"" THEN [keep EXCEPT !.mode = "d"]
        ELSE IF c = "|" THEN
            [st EXCEPT !.prev = c, !.pipes = st.pipes + 1, !.stage = "",
                       !.stages = Append(st.stages, st.stage),
                       !.control = st.control \/ st.prev = "|"]
        ELSE IF c \in ShellControlChars THEN [keep EXCEPT !.control = TRUE]
        ELSE keep
    ELSE IF st.mode = "e" THEN [keep EXCEPT !.mode = "n", !.prev = ""]
    ELSE IF st.mode = "s" THEN
        IF c = "'" THEN [keep EXCEPT !.mode = "n"] ELSE keep
    ELSE IF st.mode = "d" THEN
        IF c = "\"" THEN [keep EXCEPT !.mode = "n"]
        ELSE IF c = "\\" THEN [keep EXCEPT !.mode = "de"]
        ELSE IF c = "(" /\ st.prev = "$" THEN [keep EXCEPT !.control = TRUE]
        ELSE keep
    ELSE [keep EXCEPT !.mode = "d", !.prev = ""]

RECURSIVE shell_scan(_, _, _, _)
shell_scan(s, lo, hi, st) ==
    IF lo > hi THEN st
    ELSE IF lo = hi THEN shell_step(st, Ch(s, lo))
    ELSE LET mid  == (lo + hi) \div 2
             left == shell_scan(s, lo, mid, st) IN
         IF Evaluated(left) THEN shell_scan(s, mid + 1, hi, left) ELSE left

shell_parse(s) == shell_scan(s, 1, Len(s), ShellInit)

\* the command line is well formed for the shell: every quote is closed
ShellWellFormed(p) == p.mode = "n"

\* the shell sees a `|` outside every quoted span
ShellHasPipe(c) == shell_parse(c).pipes > 0

\* the first word of a pipeline stage, "" when it has none
FirstWord(stage) ==
    LET t == shlex_split(stage) IN
    IF t.err # "" \/ t.toks = <<>> THEN "" ELSE t.toks[1]

\* the stages the shell runs: the text between unquoted `|` characters
ShellStages(p) == Append(p.stages, p.stage)

\* the shell starts one of the four tools, then only allow-listed utilities
RunsOnlyAllowed(p) ==
    /\ ~p.control
    /\ LET stages == ShellStages(p) IN
       /\ FirstWord(stages[1]) \in ALLOWED_K8S_TOOLS
       /\ \A i \in 2..Len(stages) : FirstWord(stages[i]) \in ALLOWED_UNIX_COMMANDS

(***************************************************************************)
(* Vocabulary of the properties.                                           *)
(***************************************************************************)
StepOrder == <<"validate", "inject", "spawn", "wait", "decode", "classify">>

IsPrefix(a, b) == Len(a) <= Len(b) /\ a = SubSeq(b, 1, Len(a))

\* what a caller sees when validation refuses a command: the executor's
\* CommandValidationError, or the ValueError of the tokenizer and of security.py
ValidationErrors == {"CommandValidationError", "ValueError"}

ValidatorDone == op = "validate_command" /\ pc = "done"

ValidatorAccepted == result.kind = "None"

\* the tokens of c, <<>> when c does not tokenize
TokensOf(c) == LET t == shlex_split(c) IN IF t.err = "" THEN t.toks ELSE <<>>

\* c is written exactly as its tokens joined by single spaces
Literal(c) == TokensOf(c) # <<>> /\ c = JoinWith(" ", TokensOf(c))

ShellBinaries == {"sh", "bash", "/bin/sh", "/bin/bash"}

\* the first pipeline stage the shell would run, without surrounding blanks
FirstStage(c) == Strip(ShellStages(shell_parse(c))[1])

\* a single command for validate_k8s_command that names a supported tool
SingleToolCommand(c) ==
    /\ ~is_pipe_command(c)
    /\ TokensOf(c) # <<>>
    /\ InList(TokensOf(c)[1], Tools)

(***************************************************************************)
(* C1: every command line execute_command hands to the shell makes the     *)
(* shell run one of the four supported tools as its first stage and only   *)
(* allow-listed Unix utilities as later stages, with no unquoted control   *)
(* construct (; & && || $(...) or a redirection) in it.                    *)
(***************************************************************************)
C1_ShellRunsOnlyAllowed ==
    \A k \in 1..Len(spawned) :
        ShellWellFormed(shell_parse(spawned[k])) => RunsOnlyAllowed(shell_parse(spawned[k]))

\* the steps taken so far, in every state of a call
C2_StepsState ==
    op = "execute_command" =>
        /\ IsPrefix(steps, StepOrder)
        /\ spawned # <<>> => IsPrefix(<<"validate", "inject", "spawn">>, steps)
        /\ (pc = "done" /\ steps = <<"validate">>) =>
               result.kind \in ValidationErrors /\ spawned = <<>>

\* the validation step goes on only with an accepted command
C2_ValidationDecides ==
    (op = "execute_command" /\ pc = "start" /\ pc' # "start") =>
        IF executor_validation(command).exc = ""
        THEN pc' = "inject" /\ result' = result
        ELSE /\ pc' = "done"
             /\ result'.kind \in ValidationErrors
             /\ spawned' = <<>>
             /\ steps' = <<"validate">>

\* a process is started only from a validated, injected, accepted command
C2_SpawnAfterAccept ==
    spawned' # spawned =>
        /\ steps = <<"validate", "inject">>
        /\ executor_validation(command).exc = ""

C3_DangerousUnlessSafe ==
    (ValidatorDone /\ SingleToolCommand(command)
        /\ StartsWithAny(command, DANGEROUS_COMMANDS[TokensOf(command)[1]])) =>
            (ValidatorAccepted <=>
                StartsWithAny(command, SAFE_PATTERNS[TokensOf(command)[1]]))

\* read commands with no dangerous prefix
PlainReads == {"kubectl get pods", "istioctl analyze", "helm list", "argocd app list"}

(***************************************************************************)
(* C4: validation rejects a single command with no tokens, with a first    *)
(* token that is not one of the four tools, or with the tool alone; it     *)
(* accepts the plain read commands.                                        *)
(***************************************************************************)
C4_ToolAndAction ==
    (ValidatorDone /\ ~is_pipe_command(command) /\ shlex_split(command).err = "") =>
        /\ (\/ TokensOf(command) = <<>>
            \/ ~InList(TokensOf(command)[1], Tools)
            \/ Len(TokensOf(command)) < 2) => result.kind = "ValueError"
        /\ command \in PlainReads => ValidatorAccepted

\* c reads kubectl exec <pod> -- <shell>
BareShellExec(c) ==
    /\ Literal(c)
    /\ Len(TokensOf(c)) = 5
    /\ SubSeq(TokensOf(c), 1, 2) = <<"kubectl", "exec">>
    /\ ~StartsWith(TokensOf(c)[3], "-")
    /\ TokensOf(c)[4] = "--"
    /\ TokensOf(c)[5] \in ShellBinaries

NonShellExec(c) ==
    /\ TokensOf(c) # <<>>
    /\ ~ShellHasPipe(c)
    /\ Len(TokensOf(c)) >= 5
    /\ SubSeq(TokensOf(c), 1, 2) = <<"kubectl", "exec">>
    /\ ~StartsWith(TokensOf(c)[3], "-")
    /\ TokensOf(c)[4] = "--"
    /\ \/ TokensOf(c)[5] \notin ShellBinaries /\ Len(TokensOf(c)) = 5
       \/ /\ TokensOf(c)[5] \in ShellBinaries
          /\ Len(TokensOf(c)) = 7
          /\ TokensOf(c)[6] = "-c"

(***************************************************************************)
(* C6: validate_command accepts kubectl exec <pod> -- <program ...> when   *)
(* the program is no shell binary, and when it is a shell given a -c       *)
(* script.                                                                 *)
(***************************************************************************)
C6_NonShellExecAccepted ==
    (ValidatorDone /\ NonShellExec(command)) => ValidatorAccepted

\* c reads kubectl exec -it <pod> -- <shell>
InteractiveShellExec(c) ==
    /\ Literal(c)
    /\ Len(TokensOf(c)) = 6
    /\ SubSeq(TokensOf(c), 1, 3) = <<"kubectl", "exec", "-it">>
    /\ ~StartsWith(TokensOf(c)[4], "-")
    /\ TokensOf(c)[5] = "--"
    /\ TokensOf(c)[6] \in ShellBinaries

(***************************************************************************)
(* C7: validate_command accepts kubectl exec -it <pod> -- <shell>.         *)
(***************************************************************************)
C7_InteractiveShellAccepted ==
    (ValidatorDone /\ InteractiveShellExec(command)) => ValidatorAccepted

\* what makes a list of pipeline segments acceptable
PipeAcceptable(segments) ==
    /\ Len(segments) >= 1
    /\ validate_k8s_command(segments[1]).exc = ""
    /\ \A i \in 2..Len(segments) :
           /\ segments[i] # ""
           /\ TokensOf(segments[i]) # <<>>
           /\ TokensOf(segments[i])[1] \in ALLOWED_UNIX_COMMANDS

(***************************************************************************)
(* C8: validate_pipe_command accepts exactly when the split yields at      *)
(* least one segment, the first segment passes validate_k8s_command, and   *)
(* every later segment is non-empty with a first token in the Unix         *)
(* allow-list; otherwise it raises a validation error.                     *)
(***************************************************************************)
C8_PipeAcceptedExactly ==
    (op = "validate_pipe_command" /\ pc = "done") =>
        IF PipeAcceptable(split_pipe_command(command))
        THEN result.kind = "None"
        ELSE result.kind = "ValueError"

\* a three-segment pipeline refused for its last segment only
C8_Witness ==
    /\ op = "validate_pipe_command"
    /\ pc = "done"
    /\ Len(split_pipe_command(command)) = 3
    /\ validate_k8s_command(split_pipe_command(command)[1]).exc = ""
    /\ FirstWord(split_pipe_command(command)[2]) \in ALLOWED_UNIX_COMMANDS
    /\ result.kind = "ValueError"

\* c cut at the `|` characters the shell sees, blanks stripped, like the
\* list split_pipe_command returns
ShellSegments(c) ==
    LET p    == shell_parse(c)
        body == [i \in 1..Len(p.stages) |-> Strip(p.stages[i])] IN
    IF Strip(p.stage) # "" THEN Append(body, Strip(p.stage)) ELSE body

(***************************************************************************)
(* C9: is_pipe_command(c) is true exactly when c holds a | that is outside *)
(* every quoted span for the shell, and split_pipe_command(c) cuts c at    *)
(* exactly those | characters.                                             *)
(***************************************************************************)
C9_PipeIffShellPipe ==
    (op = "execute_command" /\ path # "" /\ ShellWellFormed(shell_parse(command))) =>
        /\ (path = "pipe") <=> ShellHasPipe(command)
        /\ split_pipe_command(command) = ShellSegments(command)

(***************************************************************************)
(* C10: a command security.validate_command rejects never passes the       *)
(* validation step of execute_command.                                     *)
(***************************************************************************)
C10_ExecutorRefinesSecurity ==
    (op = "execute_command" /\ pc = "inject") => validate_command(command).exc = ""

\* some timeout step of execute_command, whatever the build and the kill do
TimesOut == \E builtin_alias \in BOOLEAN, kill_raises \in BOOLEAN :
                ExecWaitTimesOut(builtin_alias, kill_raises)

\* r is an error (raised, or a status-error CommandResult) whose message names
\* the timeout t in force
TimeoutErrorNaming(r, t) ==
    /\ r.kind = "CommandExecutionError" \/ (r.kind = "CommandResult" /\ r.status = "error")
    /\ Contains(r.output.text, "timed out after " \o ToString(effective_timeout(t)) \o " seconds")

C13_CancellationPropagates ==
    [][ExecCancelled => (/\ result'.kind = "CancelledError"
                         /\ result'.kind # "CommandExecutionError"
                         /\ result'.kind # "CommandResult")]_vars

\* the call was cancelled at position at on path p
CancelledAt(p, at) ==
    /\ op = "execute_command" /\ pc = "done" /\ path = p
    /\ result.kind = "CancelledError"
    /\ steps[Len(steps)] = at

C13_Witness ==
    /\ command = "helm list | grep nginx"
    /\ CancelledAt("pipe", "wait")

\* the subprocess of the execute_command call has exited and the call has
\* returned the result built from its exit code
Classified ==
    /\ op = "execute_command" /\ pc = "done"
    /\ steps # <<>> /\ steps[Len(steps)] = "classify"

\* the words of the remediation hint for each tool
RemediationHint(cli_tool) ==
    IF cli_tool = "kubectl" THEN "kubeconfig"
    ELSE IF cli_tool = "istioctl" THEN "Istio configuration"
    ELSE IF cli_tool = "helm" THEN "Helm repository configuration"
    ELSE IF cli_tool = "argocd" THEN "login status"
    ELSE ""

\* r is an authentication error carrying the hint of the tool of command c
AuthenticationError(r, c) ==
    /\ r.kind = "CommandResult" /\ r.status = "error"
    /\ StartsWith(r.output.text, "Authentication error: ")
    /\ Contains(r.output.text, RemediationHint(get_tool_from_command(c)))

(***************************************************************************)
(* C14: when the subprocess exits non-zero, the result of execute_command  *)
(* is an authentication error carrying the hint of the command's tool if   *)
(* stderr holds an authentication-failure signature in any letter case,    *)
(* and the generic error made of stderr otherwise, for plain and for piped *)
(* commands.                                                               *)
(***************************************************************************)
C14_AuthErrorsClassified ==
    (Classified /\ proc.returncode # 0) =>
        IF is_auth_error(proc.stderr.text)
        THEN AuthenticationError(result, command)
        ELSE /\ result.kind = "CommandResult" /\ result.status = "error"
             /\ result.output = stderr_or_default(proc.stderr)

(***************************************************************************)
(* C15: when the subprocess exits with code 0, execute_command returns a   *)
(* CommandResult with status "success", the decoded (and, if oversized,    *)
(* truncated) stdout as output, and exit_code 0, on the plain and on the   *)
(* piped path.                                                             *)
(***************************************************************************)
C15_SuccessResult ==
    (Classified /\ proc.returncode = 0) =>
        /\ result.kind = "CommandResult"
        /\ result.status = "success"
        /\ result.output = truncate_output(proc.stdout)
        /\ result.exit_code = 0

\* the first n characters of stream s (of at least n characters)
FirstChars(s, n) ==
    [text      |-> IF Len(s.text) > n THEN SubSeq(s.text, 1, n) ELSE s.text,
     len       |-> n,
     truncated |-> FALSE]

\* stream s followed by the marker "\n... (output truncated)"
FollowedByMarker(s) ==
    [text      |-> s.text,
     len       |-> s.len + Len("\n... (output truncated)"),
     truncated |-> TRUE]

(***************************************************************************)
(* C16: the output of a successful execution is the first MAX_OUTPUT_SIZE  *)
(* characters of stdout followed by the marker when stdout is longer than  *)
(* MAX_OUTPUT_SIZE, so it is at most MAX_OUTPUT_SIZE + len(marker) long    *)
(* and ends with the marker; a stdout of at most MAX_OUTPUT_SIZE           *)
(* characters is returned unchanged.                                       *)
(***************************************************************************)
C16_OutputTruncated ==
    (Classified /\ proc.returncode = 0) =>
        IF proc.stdout.len > MAX_OUTPUT_SIZE
        THEN /\ result.output = FollowedByMarker(FirstChars(proc.stdout, MAX_OUTPUT_SIZE))
             /\ result.output.len <= MAX_OUTPUT_SIZE + Len("\n... (output truncated)")
             /\ result.output.truncated
        ELSE result.output = proc.stdout

\* a piped call returned a truncated stdout one character over the limit
C16_Witness ==
    /\ Classified /\ path = "pipe"
    /\ proc.returncode = 0 /\ proc.stdout.len = MAX_OUTPUT_SIZE + 1
    /\ result.output.truncated

\* the temporary files call i created that are still on disk
FilesOf(i) == { n \in DOMAIN files : files[n].owner = i }

(***************************************************************************)
(* C17: once a call of execute_command_logic has returned, no temporary    *)
(* credential file it created is left on disk, whatever the exit path:     *)
(* success, non-zero exit, binary not found, a bundle that is not base64   *)
(* or not UTF-8, or any other exception.                                   *)
(***************************************************************************)
C17_NoCredentialFileRemains ==
    \A i \in 1..MaxCalls : calls[i].pc = "returned" => FilesOf(i) = {}

\* the bytes each bundle of the requests stands for
BundleBytes ==
    [b \in {effective_kubeconfig(req.x_kubeconfig, req.kubeconfig) : req \in RestRequests}
        |-> b64decode(b).bytes]

\* subprocess k of a call that carried a bundle runs under that call's own
\* temporary file, which is on disk and holds that call's bundle while k runs
OwnCredentials(k) ==
    LET i == children[k].call IN
    calls[i].kubeconfig_b64 # "" =>
        /\ children[k].kubeconfig # ""
        /\ children[k].kubeconfig = calls[i].kubeconfig_path
        /\ children[k].state = "running" =>
               /\ children[k].kubeconfig \in DOMAIN files
               /\ files[children[k].kubeconfig].owner = i
               /\ files[children[k].kubeconfig].content = BundleBytes[calls[i].kubeconfig_b64]

C18_State ==
    /\ environ = ParentKubeconfig
    /\ \A k \in 1..Len(children) : OwnCredentials(k)

\* a file disappears or changes hands only in the step in which its owner returns
C18_RemovedByOwner ==
    \A n \in DOMAIN files :
        (n \notin DOMAIN files' \/ files'[n] # files[n]) =>
            /\ calls[files[n].owner].pc # "returned"
            /\ calls'[files[n].owner].pc = "returned"

(***************************************************************************)
(* C18: under every interleaving of concurrent execute_command_logic calls *)
(* with different credential bundles, each subprocess is spawned with      *)
(* KUBECONFIG naming its own call's temporary file, that file is on disk   *)
(* (with that call's bundle in it) for as long as the subprocess runs, no  *)
(* call removes or overwrites the file of another, and KUBECONFIG of the   *)
(* server process keeps its value.                                         *)
(***************************************************************************)
C18_CallsIsolated == []C18_State /\ [][C18_RemovedByOwner]_vars

\* two calls with different bundles have their subprocesses running at once
C18_Witness ==
    \E j, k \in 1..Len(children) :
        /\ children[j].state = "running" /\ children[k].state = "running"
        /\ children[j].kubeconfig # ParentKubeconfig
        /\ children[k].kubeconfig # ParentKubeconfig
        /\ calls[children[j].call].kubeconfig_b64 # calls[children[k].call].kubeconfig_b64

\* the request of call i is a dangerous form without a safe override, by the
\* dangerous/safe tables of the policy engine
RestDangerous(i) ==
    /\ calls[i].pc # "idle"
    /\ DangerousCheck(calls[i].tool \o " " \o calls[i].command, calls[i].tool,
                      DANGEROUS_COMMANDS, SAFE_PATTERNS)

(***************************************************************************)
(* C19: the REST gateway refuses dangerous commands: a request whose       *)
(* command is a dangerous form without a safe override (`delete` on        *)
(* /tools/kubectl, `uninstall` on /tools/helm) never has a subprocess      *)
(* spawned for it and is answered with an error response.                  *)
(***************************************************************************)
C19_RestAdmissionCheck ==
    \A i \in 1..MaxCalls :
        RestDangerous(i) =>
            /\ calls[i].child = 0
            /\ calls[i].pc = "returned" => ~calls[i].response.success

(***************************************************************************)
(* C12: every call that has spawned a subprocess eventually resolves, even *)
(* if the subprocess never exits, because the wait is bounded by a         *)
(* timeout; stated here for the REST gateway's execute_command_logic, the  *)
(* third of the entry points the claim names.                              *)
(***************************************************************************)
C12_SpawnedCallResolves ==
    \A i \in 1..MaxCalls : (calls[i].child # 0) ~> (calls[i].pc = "returned")

\* result r of a call follows from its own command and timeout limit (start is what
\* the call does before its first await), from the event that ended it and from
\* the processes ps it owns
own_result(i, event, r, limit, start, ps) ==
    /\ r # NoResult
    /\ event = "refused" => (start.pc = "done" /\ r = start.result)
    /\ event = "spawn failed" => r = spawn_failed(start.path)
    /\ event = "cancelled" => r = Raised("CancelledError", "")
    /\ event = "timed out" =>
           \E builtin_alias \in BOOLEAN, kill_raises \in BOOLEAN :
               r = timed_out(start.path, limit, builtin_alias, kill_raises).result
    /\ event = "exited" =>
           \E k \in 1..Len(ps) :
               /\ ps[k].owner = i
               /\ ps[k].state = "exited"
               /\ ps[k].cmdline = start.cmdline
               /\ r = completed(start.path, start.cmdline, ps[k].outcome)

OwnResult(i, t, ps) ==
    own_result(i, t.event, t.result, t.timeout, started(t.command, t.timeout), ps)

\* every finished call holds a result
C20_State ==
    \A i \in 1..MaxCalls : tasks[i].pc = "done" => tasks[i].result # NoResult

\* the step that finishes a call gives it the result of its own command, timeout
\* and subprocess; a finished call keeps its result, a running call keeps its
\* arguments, and a step changes the state of at most one call
C20_Step ==
    /\ \A i \in 1..MaxCalls :
           (tasks[i].pc # "done" /\ tasks'[i].pc = "done") =>
               OwnResult(i, tasks'[i], processes')
    /\ \A i \in 1..MaxCalls : tasks[i].pc = "done" => tasks'[i] = tasks[i]
    /\ \A i \in 1..MaxCalls :
           tasks[i].pc # "idle" =>
               tasks'[i].command = tasks[i].command /\ tasks'[i].timeout = tasks[i].timeout
    /\ \A i, j \in 1..MaxCalls :
           (i # j /\ tasks'[i] # tasks[i]) => tasks'[j] = tasks[j]

(***************************************************************************)
(* C20: concurrent calls of execute_command resolve independently: under   *)
(* every interleaving of their awaits, the result of each call is the one  *)
(* its own command, its own timeout and the outcome of its own subprocess  *)
(* give; each call gets one result, which is never replaced; and no step   *)
(* of one call changes the command, output or result of another.           *)
(***************************************************************************)
C20_CallsIndependent == []C20_State /\ [][C20_Step]_vars

\* two calls whose subprocesses were spawned in the reverse order of the calls
\* have both returned, with different results
C20_Witness ==
    /\ Len(processes) >= 2
    /\ processes[1].owner = 2 /\ processes[2].owner = 1
    /\ tasks[1].pc = "done" /\ tasks[1].event = "exited"
    /\ tasks[2].pc = "done" /\ tasks[2].event = "exited"
    /\ tasks[1].result # tasks[2].result

(***************************************************************************)
(* Functions of the package that keep no state, each called once on an     *)
(* input drawn from a bounded set.                                         *)
(***************************************************************************)

\* commands for inject_context_namespace: a stem followed by up to MaxArgs fragments
InjectStems ==
    {"kubectl get pods", "kubectl get nodes", "kubectl --context=staging get pods",
     "kubectl --context staging get pods", "kubectl version", "istioctl analyze",
     "helm list"}

InjectFragments ==
    {" -n kube-system", " --namespace kube-system", " --namespace=kube-system", " -A",
     " --all-namespaces", " -l 'a|b'", " -l 'app=my app'", " -o wide", " '"}

InjectArgLists == UNION { [1..n -> InjectFragments] : n \in 0..MaxArgs }

InjectCommands == { stem \o Concat(a) : stem \in InjectStems, a \in InjectArgLists }

\* inject_context_namespace(c) is called with K8S_CONTEXT = ctx ("" for None) and
\* K8S_NAMESPACE = ns configured
CallInject(c, ctx, ns) ==
    /\ fn = ""
    /\ fn' = "inject_context_namespace"
    /\ fn_args' = <<c, ctx, ns>>
    /\ fn_rets' = <<inject_context_namespace(c, ctx, ns)>>
    /\ UNCHANGED fn_effects

\* the string it returned is passed through inject_context_namespace again
CallInjectAgain ==
    /\ fn = "inject_context_namespace"
    /\ Len(fn_rets) = 1
    /\ fn_rets[1].err = ""
    /\ fn_rets' = Append(fn_rets,
                         inject_context_namespace(fn_rets[1].value, fn_args[2], fn_args[3]))
    /\ UNCHANGED <<fn, fn_args, fn_effects>>

NextInject ==
    \/ fn = "" /\ UNCHANGED <<exec_vars, rest_vars, conc_vars>>
          /\ \E c \in InjectCommands, ctx \in Contexts, ns \in Namespaces :
                 CallInject(c, ctx, ns)
    \/ CallInjectAgain /\ UNCHANGED <<exec_vars, rest_vars, conc_vars>>

SpecInject == Init /\ [][NextInject]_vars

\* inject_context_namespace was called once, on c, and returned a string
InjectReturned(c) ==
    /\ fn = "inject_context_namespace"
    /\ Len(fn_rets) = 1
    /\ fn_args[1] = c
    /\ fn_rets[1].err = ""

\* the tokens of s that start with prefix p, in order
RECURSIVE TokensWith(_, _)
TokensWith(toks, p) ==
    IF toks = <<>> THEN <<>>
    ELSE IF StartsWith(toks[1], p) THEN <<toks[1]>> \o TokensWith(Tail(toks), p)
    ELSE TokensWith(Tail(toks), p)

ContextFlags(s) == TokensWith(TokensOf(s), "--context")

NamespaceFlags(s) == TokensWith(TokensOf(s), "--namespace") \o TokensWith(TokensOf(s), "-n")

(***************************************************************************)
(* C21: with a default context C and a default namespace N configured,     *)
(* inject_context_namespace returns for `kubectl get pods` a command with  *)
(* both --context=C and --namespace=N, for `kubectl get nodes` a command   *)
(* with --context=C and no namespace flag, for a command that already has  *)
(* a --context flag that flag alone, and the command of any tool other     *)
(* than kubectl and istioctl unchanged.                                    *)
(***************************************************************************)
C21_InjectsDefaults ==
    (fn = "inject_context_namespace" /\ Len(fn_rets) = 1 /\ fn_args[2] # "") =>
        LET c   == fn_args[1]
            C   == fn_args[2]
            N   == fn_args[3]
            out == fn_rets[1] IN
        /\ c = "kubectl get pods" =>
               /\ out.err = ""
               /\ ContextFlags(out.value) = <<"--context=" \o C>>
               /\ NamespaceFlags(out.value) = <<"--namespace=" \o N>>
        /\ c = "kubectl get nodes" =>
               /\ out.err = ""
               /\ ContextFlags(out.value) = <<"--context=" \o C>>
               /\ NamespaceFlags(out.value) = <<>>
        /\ (out.err = "" /\ ContextFlags(c) # <<>>) =>
               ContextFlags(out.value) = ContextFlags(c)
        /\ ~(StartsWith(c, "kubectl") \/ StartsWith(c, "istioctl")) =>
               (out.err = "" /\ out.value = c)

\* `kubectl get pods` came back with both flags
C21_Witness ==
    /\ InjectReturned("kubectl get pods")
    /\ fn_args[2] = "prod"
    /\ fn_rets[1].value = "kubectl --namespace=default --context=prod get pods"

\* the tokens that select a namespace or all namespaces, in order
RECURSIVE NamespaceSelections(_)
NamespaceSelections(toks) ==
    IF toks = <<>> THEN <<>>
    ELSE IF \/ toks[1] \in {"-n", "--namespace", "-A", "--all-namespaces"}
            \/ StartsWith(toks[1], "--namespace=")
         THEN <<toks[1]>> \o NamespaceSelections(Tail(toks))
         ELSE NamespaceSelections(Tail(toks))

(***************************************************************************)
(* C22: inject_context_namespace adds no --namespace flag to a command     *)
(* that already selects a namespace or all namespaces, written as -n X,    *)
(* --namespace X, --namespace=X, -A or --all-namespaces: the namespace     *)
(* selections of the result are those of the command.                      *)
(***************************************************************************)
C22_ExplicitNamespaceKept ==
    (/\ fn = "inject_context_namespace"
     /\ Len(fn_rets) = 1
     /\ fn_rets[1].err = ""
     /\ NamespaceSelections(TokensOf(fn_args[1])) # <<>>) =>
        NamespaceSelections(TokensOf(fn_rets[1].value))
            = NamespaceSelections(TokensOf(fn_args[1]))

(***************************************************************************)
(* cli_executor.py: get_command_help, which awaits execute_command         *)
(***************************************************************************)
SUPPORTED_CLI_TOOLS == {"kubectl", "istioctl", "helm", "argocd"}

\* SUPPORTED_CLI_TOOLS[cli_tool]["help_flag"]
help_flag(cli_tool) == "--help"

\* cmd_str; cmd = "" stands for None, and `if command:` treats both alike
help_cmd_str(cli_tool, cmd) ==
    IF cmd # "" THEN cli_tool \o " " \o cmd \o " " \o help_flag(cli_tool)
    ELSE cli_tool \o " " \o help_flag(cli_tool)

CommandHelpResult(text) == [kind |-> "CommandHelpResult", help_text |-> text]

\* get_command_help up to its first await: the unsupported tool returns at once,
\* any other calls execute_command(cmd_str) with no timeout argument
HelpCall(cli_tool, cmd) ==
    /\ fn = ""
    /\ pc = "idle"
    /\ fn' = "get_command_help"
    /\ fn_args' = <<cli_tool, cmd>>
    /\ UNCHANGED fn_effects
    /\ IF cli_tool \notin SUPPORTED_CLI_TOOLS
       THEN /\ fn_rets' = <<CommandHelpResult(Stream("Unsupported CLI tool: " \o cli_tool))>>
            /\ UNCHANGED exec_vars
       ELSE /\ fn_rets' = <<>>
            /\ Call("execute_command", help_cmd_str(cli_tool, cmd), 0)

\* a handler that lets every exception of execute_command through
help_result_unhandled(r) ==
    IF r.kind = "CommandResult"
    THEN CommandHelpResult(IF r.status = "success" THEN r.output
                           ELSE Wrap("Error: ", r.output, ""))
    ELSE r

\* what get_command_help hands to its caller when execute_command returned or
\* raised r: CancelledError is no Exception and passes the three handlers
help_result(r) ==
    IF r.kind = "CommandResult"
    THEN CommandHelpResult(IF r.status = "success" THEN r.output
                           ELSE Wrap("Error: ", r.output, ""))
    ELSE IF r.kind = "CommandValidationError"
    THEN CommandHelpResult(Wrap("Command validation error: ", r.output, ""))
    ELSE IF r.kind = "CommandExecutionError"
    THEN CommandHelpResult(Wrap("Error retrieving help: ", r.output, ""))
    ELSE IF r.kind = "CancelledError"
    THEN r
    ELSE CommandHelpResult(Wrap("Error retrieving help: ", r.output, ""))

\* execute_command has returned or raised; get_command_help resumes and returns
HelpReturn ==
    /\ fn = "get_command_help"
    /\ fn_rets = <<>>
    /\ pc = "done"
    /\ fn_rets' = <<help_result(result)>>
    /\ UNCHANGED <<fn, fn_args, fn_effects, exec_vars>>

HelpTools == {"kubectl", "helm", "docker", ""}

HelpCommands == {"", "get", "delete", "exec", "get pods | grep nginx", "'"}

NextHelp ==
    \/ fn = "" /\ UNCHANGED <<rest_vars, conc_vars>>
          /\ \E cli_tool \in HelpTools, cmd \in HelpCommands : HelpCall(cli_tool, cmd)
    \/ ExecValidate /\ UNCHANGED <<rest_vars, conc_vars, fn_vars>>
    \/ pc = "inject" /\ UNCHANGED <<rest_vars, conc_vars, fn_vars>>
          /\ \E ctx \in Contexts, ns \in Namespaces : ExecInject(ctx, ns)
    \/ ExecSpawn /\ UNCHANGED <<rest_vars, conc_vars, fn_vars>>
    \/ ExecSpawnFails /\ UNCHANGED <<rest_vars, conc_vars, fn_vars>>
    \/ pc = "wait" /\ UNCHANGED <<rest_vars, conc_vars, fn_vars>>
          /\ \E o \in ProcOutcomes : ExecWaitCompletes(o)
    \/ pc = "wait" /\ UNCHANGED <<rest_vars, conc_vars, fn_vars>>
          /\ \E builtin_alias \in BOOLEAN, kill_raises \in BOOLEAN :
                 ExecWaitTimesOut(builtin_alias, kill_raises)
    \/ ExecCancelled /\ UNCHANGED <<rest_vars, conc_vars, fn_vars>>
    \/ ExecDecode /\ UNCHANGED <<rest_vars, conc_vars, fn_vars>>
    \/ ExecClassify /\ UNCHANGED <<rest_vars, conc_vars, fn_vars>>
    \/ HelpReturn /\ UNCHANGED <<rest_vars, conc_vars>>

SpecHelp == Init /\ [][NextHelp]_vars

\* get_command_help has returned or raised
HelpDone == fn = "get_command_help" /\ fn_rets # <<>>

\* stream s ends with the characters of stream m
EmbedsMessage(s, m) ==
    /\ s.len >= m.len
    /\ Len(s.text) >= Len(m.text)
    /\ SubSeq(s.text, Len(s.text) - Len(m.text) + 1, Len(s.text)) = m.text

main_transport_unchecked(MCP_TRANSPORT) == MCP_TRANSPORT

\* transport, as main() chooses it from the configured value
main_transport(MCP_TRANSPORT) ==
    IF MCP_TRANSPORT \notin {"stdio", "sse"} THEN "stdio" ELSE MCP_TRANSPORT

\* the records main() logs before it starts the server
main_logs(MCP_TRANSPORT) ==
    (IF MCP_TRANSPORT \notin {"stdio", "sse"}
     THEN <<[call |-> "logger.error",
             arg  |-> "Invalid transport protocol: " \o MCP_TRANSPORT
                          \o ". Using stdio instead."]>>
     ELSE <<>>)
    \o <<[call |-> "logger.info",
          arg  |-> "Starting K8s MCP Server with " \o main_transport(MCP_TRANSPORT)
                       \o " transport"]>>

\* main() with MCP_TRANSPORT configured, up to its call of mcp.run, which
\* returns only when the server stops
MainStarts(MCP_TRANSPORT) ==
    /\ fn = ""
    /\ fn' = "main"
    /\ fn_args' = <<MCP_TRANSPORT>>
    /\ fn_effects' = main_logs(MCP_TRANSPORT)
                         \o <<[call |-> "mcp.run", arg |-> main_transport(MCP_TRANSPORT)]>>
    /\ UNCHANGED fn_rets

\* mcp.run returns and main() returns None after it
McpRunReturns ==
    /\ fn = "main"
    /\ fn_rets = <<>>
    /\ fn_rets' = <<[NoResult EXCEPT !.kind = "None"]>>
    /\ UNCHANGED <<fn, fn_args, fn_effects>>

\* mcp.run raises (the server could not start); main() has no handler
McpRunRaises ==
    /\ fn = "main"
    /\ fn_rets = <<>>
    /\ fn_rets' = <<Raised("Exception", "startup failed")>>
    /\ UNCHANGED <<fn, fn_args, fn_effects>>

\* values of K8S_MCP_TRANSPORT: the two transports and others, in several
\* spellings, with and without surrounding blanks
TransportWords ==
    {"stdio", "sse", "STDIO", "SSE", "Stdio", "http", "streamable-http", "websocket",
     "invalid", "", "stdio,sse", "s"}

Transports ==
    { a \o w \o b : a \in {"", " "}, w \in TransportWords, b \in {"", " ", "\n"} }

NextMain ==
    \/ fn = "" /\ UNCHANGED <<exec_vars, rest_vars, conc_vars>>
          /\ \E t \in Transports : MainStarts(t)
    \/ McpRunReturns /\ UNCHANGED <<exec_vars, rest_vars, conc_vars>>
    \/ McpRunRaises /\ UNCHANGED <<exec_vars, rest_vars, conc_vars>>

SpecMain == Init /\ [][NextMain]_vars

\* the transports mcp.run was called with, in order
RECURSIVE McpRuns(_)
McpRuns(effects) ==
    IF effects = <<>> THEN <<>>
    ELSE IF effects[1].call = "mcp.run" THEN <<effects[1].arg>> \o McpRuns(Tail(effects))
    ELSE McpRuns(Tail(effects))

\* the position of the first record of call k in effects, 0 when there is none
FirstCall(effects, k) ==
    IF \E i \in 1..Len(effects) : effects[i].call = k
    THEN CHOOSE i \in 1..Len(effects) :
             effects[i].call = k /\ \A j \in 1..(i - 1) : effects[j].call # k
    ELSE 0

ExecStarts ==
    {"kubectl exec pod-name", "kubectl exec -it pod-name", "kubectl exec -i pod-name",
     "kubectl exec -ti pod-name", "kubectl exec --stdin pod-name",
     "kubectl exec pod-name -c container", "kubectl exec --help", "kubectl get pods",
     "kubectl logs pod-name", ""}

ExecTargets ==
    {"", " -- ls", " -- echo hello", " -- sh", " -- bash", " -- zsh", " -- ksh", " -- csh",
     " -- /bin/sh", " -- /bin/bash", " -- /usr/bin/bash"}

ExecScripts == {"", " -c 'ls -la'"}

ExecCommands == { a \o t \o s : a \in ExecStarts, t \in ExecTargets, s \in ExecScripts }

\* security.is_safe_exec_command(c) is called
CallIsSafeExec(c) ==
    /\ fn = ""
    /\ fn' = "is_safe_exec_command"
    /\ fn_args' = <<c>>
    /\ fn_rets' = <<is_safe_exec_command(c)>>
    /\ UNCHANGED fn_effects

\* the position of the first "--" among toks, 0 when there is none
DashDash(toks) ==
    IF InList("--", toks)
    THEN CHOOSE i \in 1..Len(toks) : toks[i] = "--" /\ \A j \in 1..(i - 1) : toks[j] # "--"
    ELSE 0

\* the part of path p after its last "/"
RECURSIVE BaseName(_)
BaseName(p) ==
    IF ~Contains(p, "/") THEN p
    ELSE BaseName(SubSeq(p, 2, Len(p)))

ShellNames == {"sh", "bash", "zsh", "ksh", "csh"}

\* c is a kubectl exec command whose program after "--" is a shell binary
ExecTargetsShell(c) ==
    LET toks == TokensOf(c)
        d    == DashDash(toks) IN
    /\ Len(toks) >= 2 /\ SubSeq(toks, 1, 2) = <<"kubectl", "exec">>
    /\ d > 0 /\ d < Len(toks)
    /\ BaseName(toks[d + 1]) \in ShellNames

\* an interactive flag stands before the "--"
ExecInteractiveFlag(c) ==
    LET toks == TokensOf(c)
        d    == DashDash(toks) IN
    \E i \in 1..(IF d = 0 THEN Len(toks) ELSE d - 1) :
        toks[i] \in {"-i", "-it", "-ti", "--stdin"}

\* c asks for the help of kubectl exec
ExecHelpRequest(c) == InList("--help", TokensOf(c)) \/ InList("-h", TokensOf(c))

\* the shell after "--" is given an inline script with -c
ExecInlineScript(c) ==
    LET toks == TokensOf(c)
        d    == DashDash(toks) IN
    d > 0 /\ d + 2 <= Len(toks) /\ toks[d + 2] = "-c"

(***************************************************************************)
(* C25: is_safe_exec_command returns true for every command that is no     *)
(* `kubectl exec` command and for `kubectl exec` help requests; for a      *)
(* `kubectl exec` command it returns false exactly when the program after  *)
(* `--` is a shell binary (sh, bash, zsh, ksh, csh, bare or under a path)  *)
(* and the command has neither an interactive flag (-i, -it, -ti,          *)
(* --stdin) nor a -c inline script.                                        *)
(***************************************************************************)
C25_SafeExecDecision ==
    fn = "is_safe_exec_command" =>
        LET c == fn_args[1] IN
        fn_rets[1] = ~(/\ ExecTargetsShell(c)
                       /\ ~ExecHelpRequest(c)
                       /\ ~ExecInteractiveFlag(c)
                       /\ ~ExecInlineScript(c))

\* commands for validate_command: the tool with what stands before the verb,
\* the verb, and what follows it
DeleteStarts ==
    {"kubectl", "kubectl ", " kubectl", "kubectl --namespace=prod", "kubectl -v=6", "helm"}

DeleteVerbs == {" delete", " get"}

DeleteRests ==
    {"", " pod", " pod my-pod", " pods", " pods --all", " podsecuritypolicy restricted",
     " deployment web", " service web", " configmap settings", " secret token",
     " secrets --all", " namespace prod", " node worker-1", " -f app.yaml"}

DeleteCommands ==
    { a \o v \o r : a \in DeleteStarts, v \in DeleteVerbs, r \in DeleteRests }

\* security.validate_command(c) is called
CallValidateCommand(c) ==
    /\ fn = ""
    /\ fn' = "validate_command"
    /\ fn_args' = <<c>>
    /\ fn_rets' = <<validate_command(c)>>
    /\ UNCHANGED fn_effects

NextPolicy ==
    \/ fn = "" /\ UNCHANGED <<exec_vars, rest_vars, conc_vars>>
          /\ \E c \in ExecCommands : CallIsSafeExec(c)
    \/ fn = "" /\ UNCHANGED <<exec_vars, rest_vars, conc_vars>>
          /\ \E c \in DeleteCommands : CallValidateCommand(c)

SpecPolicy == Init /\ [][NextPolicy]_vars

\* the position of the first token after the tool that does not begin with "-",
\* 0 when there is none
FirstPlainToken(toks) ==
    IF \E i \in 2..Len(toks) : ~StartsWith(toks[i], "-")
    THEN CHOOSE i \in 2..Len(toks) :
             ~StartsWith(toks[i], "-") /\ \A j \in 2..(i - 1) : StartsWith(toks[j], "-")
    ELSE 0

\* c is a kubectl command whose verb is delete
KubectlDelete(c) ==
    LET toks == TokensOf(c) IN
    /\ toks # <<>>
    /\ toks[1] = "kubectl"
    /\ FirstPlainToken(toks) > 0
    /\ toks[FirstPlainToken(toks)] = "delete"

PermittedDeleteTypes == {"pod", "deployment", "service", "configmap", "secret"}

\* the token after the verb of kubectl delete command c, "" when there is none
DeletedType(c) ==
    LET toks == TokensOf(c)
        v    == FirstPlainToken(toks) IN
    IF v < Len(toks) THEN toks[v + 1] ELSE ""

(***************************************************************************)
(* C29: validate_command accepts a kubectl delete command only when the    *)
(* token after `delete` is exactly one of pod, deployment, service,        *)
(* configmap, secret, whatever the blanks between the tokens and whatever  *)
(* flags stand before `delete`.                                            *)
(***************************************************************************)
C29_DeleteOnlyPermittedTypes ==
    (/\ fn = "validate_command"
     /\ KubectlDelete(fn_args[1])
     /\ fn_rets[1].exc = "") =>
        DeletedType(fn_args[1]) \in PermittedDeleteTypes

\* c is a kubectl or istioctl command, by the test inject_context_namespace makes
InjectApplies(c) == StartsWith(c, "kubectl") \/ StartsWith(c, "istioctl")

(***************************************************************************)
(* C26: for a kubectl or istioctl command text that cannot be tokenized    *)
(* (an unmatched quote), inject_context_namespace raises nothing and       *)
(* returns the text unchanged.                                             *)
(***************************************************************************)
C26_UnparsableReturnedUnchanged ==
    (/\ fn = "inject_context_namespace"
     /\ InjectApplies(fn_args[1])
     /\ shlex_split(fn_args[1]).err # "") =>
        fn_rets[1] = [err |-> "", value |-> fn_args[1]]

\* toks without the tokens in flags
RECURSIVE WithoutTokens(_, _)
WithoutTokens(toks, flags) ==
    IF toks = <<>> THEN <<>>
    ELSE IF toks[1] \in flags THEN WithoutTokens(Tail(toks), flags)
    ELSE <<toks[1]>> \o WithoutTokens(Tail(toks), flags)

\* the flags inject_context_namespace synthesizes under the configuration
SynthesizedFlags(ctx, ns) == {"--context=" \o ctx, "--namespace=" \o ns}

(***************************************************************************)
(* C27: for a kubectl or istioctl command that tokenizes, the string       *)
(* inject_context_namespace returns tokenizes to the tokens of the         *)
(* command, in their order, plus only the synthesized --context= and       *)
(* --namespace= flags: an argument quoted because of blanks or shell       *)
(* metacharacters is still one token.                                      *)
(***************************************************************************)
C27_TokensPreserved ==
    (/\ fn = "inject_context_namespace"
     /\ Len(fn_rets) = 1
     /\ InjectApplies(fn_args[1])
     /\ shlex_split(fn_args[1]).err = "") =>
        /\ fn_rets[1].err = ""
        /\ shlex_split(fn_rets[1].value).err = ""
        /\ WithoutTokens(TokensOf(fn_rets[1].value), SynthesizedFlags(fn_args[2], fn_args[3]))
               = WithoutTokens(TokensOf(fn_args[1]), SynthesizedFlags(fn_args[2], fn_args[3]))

(***************************************************************************)
(* C30: inject_context_namespace is idempotent: applied to the string it   *)
(* returned, under the same configured context and namespace, it returns   *)
(* that string again.                                                      *)
(***************************************************************************)
C30_InjectIdempotent ==
    (fn = "inject_context_namespace" /\ Len(fn_rets) = 2) => fn_rets[2] = fn_rets[1]

(***************************************************************************)
(* execute_command on a few commands, with subprocesses that also write    *)
(* more than MAX_OUTPUT_SIZE characters to stderr                          *)
(***************************************************************************)
OutputCommands ==
    {"kubectl get pods", "kubectl get pods | grep nginx", "helm list",
     "argocd app list | head -5"}

LongErrorOutcomes ==
    {[returncode |-> 1, stdout |-> NoStream,
      stderr |-> LongStream("Error from server (NotFound)", 150000)],
     [returncode |-> 1, stdout |-> NoStream,
      stderr |-> LongStream("error: You must be logged in to the server (Unauthorized)",
                            150000)]}

NextOutput ==
    \/ pc = "idle" /\ UNCHANGED <<rest_vars, conc_vars, fn_vars>>
          /\ \E c \in OutputCommands : Call("execute_command", c, 0)
    \/ ExecValidate /\ UNCHANGED <<rest_vars, conc_vars, fn_vars>>
    \/ pc = "inject" /\ UNCHANGED <<rest_vars, conc_vars, fn_vars>>
          /\ \E ctx \in Contexts, ns \in Namespaces : ExecInject(ctx, ns)
    \/ ExecSpawn /\ UNCHANGED <<rest_vars, conc_vars, fn_vars>>
    \/ ExecSpawnFails /\ UNCHANGED <<rest_vars, conc_vars, fn_vars>>
    \/ pc = "wait" /\ UNCHANGED <<rest_vars, conc_vars, fn_vars>>
          /\ \E o \in ProcOutcomes \cup LongErrorOutcomes : ExecWaitCompletes(o)
    \/ pc = "wait" /\ UNCHANGED <<rest_vars, conc_vars, fn_vars>>
          /\ \E builtin_alias \in BOOLEAN, kill_raises \in BOOLEAN :
                 ExecWaitTimesOut(builtin_alias, kill_raises)
    \/ ExecCancelled /\ UNCHANGED <<rest_vars, conc_vars, fn_vars>>
    \/ ExecDecode /\ UNCHANGED <<rest_vars, conc_vars, fn_vars>>
    \/ ExecClassify /\ UNCHANGED <<rest_vars, conc_vars, fn_vars>>

SpecOutput == Init /\ [][NextOutput]_vars

(***************************************************************************)
(* C28: the output of every CommandResult that execute_command returns,    *)
(* on the plain and on the piped path, has at most MAX_OUTPUT_SIZE         *)
(* characters plus the length of the truncation marker; this includes the  *)
(* error results built from the stderr of the subprocess, for generic and  *)
(* for authentication failures.                                            *)
(***************************************************************************)
C28_OutputBounded ==
    (op = "execute_command" /\ pc = "done" /\ result.kind = "CommandResult") =>
        result.output.len <= MAX_OUTPUT_SIZE + Len(TruncationMarker)

====
